---------------------------- MODULE Spec2Model ----------------------------
(***************************************************************************)
(* A model of the B-tree map of src/src/{node,search,map}.rs.              *)
(*                                                                         *)
(* The heap is a function from node names to node records; a node record   *)
(* carries the fields of LeafNode (keys, vals, parent, parent_idx, len)    *)
(* and, for an InternalNode, the edges array.  Arrays are 0-based          *)
(* functions of the capacity the source declares; a slot that was never    *)
(* written, or whose content was moved out by ptr::read /                  *)
(* copy_nonoverlapping, holds Uninit.  NodeRef is [height, node], Handle   *)
(* is [node, idx], Root is [node, height].  The operations of node.rs are  *)
(* operators that take the heap and return the new heap with their result. *)
(***************************************************************************)
EXTENDS Integers, Sequences, FiniteSets, TLC

VARIABLES
    nodes,      \* the heap: node name -> LeafNode / InternalNode record
    root,       \* BTreeMap.root : Root = [node, height]
    length,     \* BTreeMap.length
    log,        \* the key -> value map a caller has stored (test.rs `log`)
    last,       \* the last public call: its arguments, what it returned, the
                \* log's value for its key before it and the change in the
                \* number of live nodes
    iters       \* the Iter values a caller holds: iterator name -> its cursor
                \* (Iter.handle), the pairs it has yielded, whether it has
                \* returned None

vars == <<nodes, root, length, log, last, iters>>

\* const T: usize = 6
T == 6

\* ptr::null_mut(): the parent of a root, and an edge slot never written
NULL == 0

\* mem::uninitialized(): the content of a slot never written or moved out
Uninit == -1

\* faulty NodeRef::capacity: a node counts as full one key too late
capacity_2T == 2 * T

\* NodeRef::capacity
capacity == 2 * T - 1

------------------------------------------------------------------------------
(* Bounds of the instance.                                                 *)

\* The keys are 1..MaxKey in three bands: the low band, a block of middle
\* keys that lies inside it, MidDepth low keys below its top, and the high
\* band above both.  A caller first fills the low band downwards from its top
\* (new keys arrive at the left end of the tree), then the high band upwards
\* from its bottom (at the right end), and, once the high band is full or
\* if it was left empty, the middle block upwards from its bottom (inside the
\* tree); each phase may stop at any point or be skipped.
LowLen == 70

HighLen == 9

MidLen == 8

MidDepth == 22

MaxKey == LowLen + MidLen + HighLen

Keys == 1..MaxKey

MidBand == (LowLen - MidDepth + 1)..(LowLen - MidDepth + MidLen)

LowBand == (1..(LowLen + MidLen)) \ MidBand

HighBand == (LowLen + MidLen + 1)..MaxKey

\* the key a caller stores more than once, with either value: the first key
\* a run of descending insertions promotes into an internal node
HotKeys == {LowLen + MidLen - T + 2}

Min(S) == CHOOSE x \in S : \A y \in S : x <= y

Max(S) == CHOOSE x \in S : \A y \in S : x >= y

\* the keys not yet stored that a caller may store next
Fresh(S) ==
    LET lo == {k \in LowBand : \A x \in S \cap LowBand : k < x}
        hi == {k \in HighBand : \A x \in S \cap HighBand : k > x}
        mi == {k \in MidBand : \A x \in S \cap MidBand : k > x}
    IN  (IF lo # {} /\ S \cap (HighBand \cup MidBand) = {} THEN {Max(lo)} ELSE {})
        \cup (IF hi # {} /\ S \cap MidBand = {} THEN {Min(hi)} ELSE {})
        \cup (IF mi # {} /\ S \cap HighBand \in {{}, HighBand} THEN {Min(mi)} ELSE {})

\* test_basic_large stores 10*i, then overwrites with 100*i
ValsOf(k) == IF k \in HotKeys THEN {10 * k, 100 * k} ELSE {10 * k}

------------------------------------------------------------------------------
(* node.rs: node storage                                                   *)

\* faulty LeafNode::new: the parent pointer is left uninitialized
LeafNode_new_wild ==
    [keys       |-> [i \in 0..(capacity - 1) |-> Uninit],
     vals       |-> [i \in 0..(capacity - 1) |-> Uninit],
     parent     |-> Uninit,
     parent_idx |-> Uninit,
     len        |-> 0]

\* LeafNode::new
LeafNode_new ==
    [keys       |-> [i \in 0..(capacity - 1) |-> Uninit],
     vals       |-> [i \in 0..(capacity - 1) |-> Uninit],
     parent     |-> NULL,
     parent_idx |-> Uninit,
     len        |-> 0]

\* InternalNode::new
InternalNode_new ==
    [keys       |-> [i \in 0..(capacity - 1) |-> Uninit],
     vals       |-> [i \in 0..(capacity - 1) |-> Uninit],
     parent     |-> NULL,
     parent_idx |-> Uninit,
     len        |-> 0,
     edges      |-> [i \in 0..(2 * T - 1) |-> NULL]]

\* Box::new: the allocator hands out the first name that is not live
Alloc(h) == CHOOSE n \in 1..(Cardinality(DOMAIN h) + 1) :
                /\ n \notin DOMAIN h
                /\ \A m \in 1..(n - 1) : m \in DOMAIN h

\* the heap h with node n stored (allocated or overwritten)
Store(h, n, rec) == [m \in (DOMAIN h) \cup {n} |-> IF m = n THEN rec ELSE h[m]]

\* Root::new_leaf
Root_new_leaf == [h |-> Store(<<>>, Alloc(<<>>), LeafNode_new),
                  root |-> [node |-> Alloc(<<>>), height |-> 0]]

\* Root::as_ref / Root::as_mut
Root_as_ref(r) == [height |-> r.height, node |-> r.node]

\* Handle::new
Handle_new(node, idx) == [node |-> node, idx |-> idx]

\* NodeRef::len
NodeRef_len(h, node) == h[node.node].len

\* NodeRef::ascend: Ok(edge handle in the parent) or Err(self)
ascend(h, node) ==
    IF h[node.node].parent = NULL
    THEN [ok |-> FALSE, node |-> node]
    ELSE [ok |-> TRUE,
          handle |-> Handle_new([height |-> node.height + 1,
                                 node |-> h[node.node].parent],
                                h[node.node].parent_idx)]

\* Handle<Internal, Edge>::descend
descend(h, handle) ==
    [height |-> handle.node.height - 1,
     node   |-> h[handle.node.node].edges[handle.idx]]

\* Handle<Internal, Edge>::correct_parent_link
correct_parent_link(h, handle) ==
    LET child == descend(h, handle).node
    IN  [h EXCEPT ![child].parent = handle.node.node,
                  ![child].parent_idx = handle.idx]

\* correct_parent_link for every edge index lo..hi-1 of `node`, in order
RECURSIVE correct_parent_links(_, _, _, _)
correct_parent_links(h, node, lo, hi) ==
    IF lo >= hi THEN h
    ELSE correct_parent_links(correct_parent_link(h, Handle_new(node, lo)),
                              node, lo + 1, hi)

\* faulty slice_insert: the value is written without moving the tail up
slice_insert_over(arr, slen, idx, val) == [arr EXCEPT ![idx] = val]

\* slice_insert on a slice of length slen of the array arr
slice_insert(arr, slen, idx, val) ==
    [i \in DOMAIN arr |->
        IF i = idx THEN val
        ELSE IF i > idx /\ i <= slen THEN arr[i - 1]
        ELSE arr[i]]

\* ptr::copy_nonoverlapping(src + from, dst, count) into a fresh array dst
copy_out(src, from, dst, count) ==
    [i \in DOMAIN dst |-> IF i < count THEN src[from + i] ELSE dst[i]]

\* the slots from..from+count-1 of arr after their content was moved out
moved_out(arr, from, count, blank) ==
    [i \in DOMAIN arr |-> IF i >= from /\ i < from + count THEN blank ELSE arr[i]]

------------------------------------------------------------------------------
(* search.rs                                                               *)

\* the for loop of search_linear, from index i on
RECURSIVE search_linear_from(_, _, _, _)
search_linear_from(keys, len, key, i) ==
    IF i >= len THEN <<len, FALSE>>
    ELSE IF key > keys[i] THEN search_linear_from(keys, len, key, i + 1)
    ELSE IF key = keys[i] THEN <<i, TRUE>>
    ELSE <<i, FALSE>>

\* faulty search_linear: the scan starts at the second key
search_linear_second(h, node, key) ==
    search_linear_from(h[node.node].keys, NodeRef_len(h, node), key, 1)

\* search_linear
search_linear(h, node, key) ==
    search_linear_from(h[node.node].keys, NodeRef_len(h, node), key, 0)

\* faulty search_node: reports Found at the first key that is not smaller,
\* equal or not
search_node_eager(h, node, key) ==
    LET r == search_linear(h, node, key)
    IN  [found  |-> r[2] \/ r[1] < NodeRef_len(h, node),
         handle |-> Handle_new(node, r[1])]

\* faulty search_node: an equal key counts as Found in a leaf only
search_node_leafonly(h, node, key) ==
    LET r == search_linear(h, node, key)
    IN  [found |-> r[2] /\ node.height = 0, handle |-> Handle_new(node, r[1])]

\* search_node: Found(kv handle) or GoDown(edge handle)
search_node(h, node, key) ==
    LET r == search_linear(h, node, key)
    IN  [found |-> r[2], handle |-> Handle_new(node, r[1])]

\* search_tree
RECURSIVE search_tree(_, _, _)
search_tree(h, node, key) ==
    LET r == search_node(h, node, key)
    IN  IF r.found THEN r
        ELSE IF r.handle.node.height = 0 THEN r
        ELSE search_tree(h, descend(h, r.handle), key)

------------------------------------------------------------------------------
(* node.rs: insertion and splitting                                        *)

\* faulty Handle<Leaf, Edge>::insert_unchecked: the entry is written after
\* the last one, whatever the index of the handle
Leaf_insert_unchecked_append(h, handle, key, val) ==
    LET n    == handle.node.node
        len0 == h[n].len
    IN  [h   |-> [h EXCEPT ![n].keys = slice_insert(@, len0, len0, key),
                           ![n].vals = slice_insert(@, len0, len0, val),
                           ![n].len  = len0 + 1],
         ptr |-> [node |-> n, idx |-> len0]]

\* Handle<Leaf, Edge>::insert_unchecked: the heap and the *mut V it returns
Leaf_insert_unchecked(h, handle, key, val) ==
    LET n    == handle.node.node
        len0 == h[n].len
    IN  [h   |-> [h EXCEPT ![n].keys = slice_insert(@, len0, handle.idx, key),
                           ![n].vals = slice_insert(@, len0, handle.idx, val),
                           ![n].len  = len0 + 1],
         ptr |-> [node |-> n, idx |-> handle.idx]]

\* faulty Handle<Leaf, KV>::split: the right half is copied from the split
\* key on, not from the slot after it
Leaf_split_early(h, handle) ==
    LET n       == handle.node.node
        new     == Alloc(h)
        new_len == h[n].len - handle.idx - 1
        new_node == [LeafNode_new EXCEPT
                        !.keys = copy_out(h[n].keys, handle.idx, @, new_len),
                        !.vals = copy_out(h[n].vals, handle.idx, @, new_len),
                        !.len  = new_len]
        left    == [h[n] EXCEPT
                        !.keys = moved_out(@, handle.idx, new_len + 1, Uninit),
                        !.vals = moved_out(@, handle.idx, new_len + 1, Uninit),
                        !.len  = handle.idx]
    IN  [h     |-> Store(Store(h, n, left), new, new_node),
         left  |-> handle.node,
         k     |-> h[n].keys[handle.idx],
         v     |-> h[n].vals[handle.idx],
         right |-> [node |-> new, height |-> 0]]

\* faulty Handle<Leaf, KV>::split: a second leaf is allocated and never linked
Leaf_split_spare(h, handle) ==
    LET n       == handle.node.node
        new     == Alloc(h)
        new_len == h[n].len - handle.idx - 1
        new_node == [LeafNode_new EXCEPT
                        !.keys = copy_out(h[n].keys, handle.idx + 1, @, new_len),
                        !.vals = copy_out(h[n].vals, handle.idx + 1, @, new_len),
                        !.len  = new_len]
        left    == [h[n] EXCEPT
                        !.keys = moved_out(@, handle.idx, new_len + 1, Uninit),
                        !.vals = moved_out(@, handle.idx, new_len + 1, Uninit),
                        !.len  = handle.idx]
        stored  == Store(Store(h, n, left), new, new_node)
    IN  [h     |-> Store(stored, Alloc(stored), LeafNode_new),
         left  |-> handle.node,
         k     |-> h[n].keys[handle.idx],
         v     |-> h[n].vals[handle.idx],
         right |-> [node |-> new, height |-> 0]]

\* Handle<Leaf, KV>::split
Leaf_split(h, handle) ==
    LET n       == handle.node.node
        new     == Alloc(h)
        new_len == h[n].len - handle.idx - 1
        new_node == [LeafNode_new EXCEPT
                        !.keys = copy_out(h[n].keys, handle.idx + 1, @, new_len),
                        !.vals = copy_out(h[n].vals, handle.idx + 1, @, new_len),
                        !.len  = new_len]
        left    == [h[n] EXCEPT
                        !.keys = moved_out(@, handle.idx, new_len + 1, Uninit),
                        !.vals = moved_out(@, handle.idx, new_len + 1, Uninit),
                        !.len  = handle.idx]
    IN  [h     |-> Store(Store(h, n, left), new, new_node),
         left  |-> handle.node,
         k     |-> h[n].keys[handle.idx],
         v     |-> h[n].vals[handle.idx],
         right |-> [node |-> new, height |-> 0]]

\* InsertResult::Fit(handle), with the heap h
InsertResult_Fit(h, handle) == [h |-> h, fit |-> TRUE, handle |-> handle]

\* InsertResult::Split(left, k, v, right) of the split s, with the heap h
InsertResult_Split(s, h) == [s EXCEPT !.h = h] @@ [fit |-> FALSE]

\* the (InsertResult, *mut V) pair of Handle<Leaf, Edge>::insert, where r is
\* what insert_unchecked returned
Leaf_insert_result(res, r) == [res EXCEPT !.h = r.h] @@ [ptr |-> r.ptr]

\* faulty Handle<Leaf, Edge>::insert on a full leaf: the pointer returned is
\* the slot the entry would have had in the unsplit leaf
Leaf_insert_split_stale(s, handle, key, val) ==
    [Leaf_insert_result(InsertResult_Split(s, s.h),
        IF handle.idx <= T
        THEN Leaf_insert_unchecked(s.h, Handle_new(s.left, handle.idx), key, val)
        ELSE Leaf_insert_unchecked(s.h,
                 Handle_new(Root_as_ref(s.right), handle.idx - T - 1), key, val))
     EXCEPT !.ptr = [node |-> s.left.node, idx |-> handle.idx]]

\* faulty Handle<Leaf, Edge>::insert on a full leaf: the offset in the right
\* node is idx - T
Leaf_insert_split_late(s, handle, key, val) ==
    Leaf_insert_result(InsertResult_Split(s, s.h),
        IF handle.idx <= T
        THEN Leaf_insert_unchecked(s.h, Handle_new(s.left, handle.idx), key, val)
        ELSE Leaf_insert_unchecked(s.h,
                 Handle_new(Root_as_ref(s.right), handle.idx - T), key, val))

\* Handle<Leaf, Edge>::insert, the full leaf: s is what middle.split() returned
Leaf_insert_split(s, handle, key, val) ==
    Leaf_insert_result(InsertResult_Split(s, s.h),
        IF handle.idx <= T
        THEN Leaf_insert_unchecked(s.h, Handle_new(s.left, handle.idx), key, val)
        ELSE Leaf_insert_unchecked(s.h,
                 Handle_new(Root_as_ref(s.right), handle.idx - T - 1), key, val))

\* faulty Handle<Leaf, Edge>::insert: a full leaf is split at T - 1
Leaf_insert_low(h, handle, key, val) ==
    IF NodeRef_len(h, handle.node) < capacity
    THEN Leaf_insert_result(InsertResult_Fit(h, handle),
                            Leaf_insert_unchecked(h, handle, key, val))
    ELSE Leaf_insert_split(Leaf_split(h, Handle_new(handle.node, T - 1)),
                           handle, key, val)

\* Handle<Leaf, Edge>::insert: (InsertResult, *mut V)
Leaf_insert(h, handle, key, val) ==
    IF NodeRef_len(h, handle.node) < capacity
    THEN Leaf_insert_result(InsertResult_Fit(h, handle),
                            Leaf_insert_unchecked(h, handle, key, val))
    ELSE Leaf_insert_split(Leaf_split(h, Handle_new(handle.node, T)),
                           handle, key, val)

\* faulty Handle<Internal, Edge>::insert_unchecked: the new edge is inserted
\* at the index of the key, left of the node that was split
Internal_insert_unchecked_left(h, handle, key, val, edge) ==
    LET n  == handle.node.node
        h1 == Leaf_insert_unchecked(h, handle, key, val).h
        h2 == [h1 EXCEPT ![n].edges =
                   slice_insert(@, h1[n].len, handle.idx, edge.node)]
    IN  correct_parent_links(h2, handle.node, handle.idx, h2[n].len + 1)

\* Handle<Internal, Edge>::insert_unchecked
Internal_insert_unchecked(h, handle, key, val, edge) ==
    LET n  == handle.node.node
        h1 == Leaf_insert_unchecked(h, handle, key, val).h
        h2 == [h1 EXCEPT ![n].edges =
                   slice_insert(@, h1[n].len, handle.idx + 1, edge.node)]
    IN  correct_parent_links(h2, handle.node, handle.idx + 1, h2[n].len + 1)

\* faulty Handle<Internal, KV>::split: the edges are copied from index idx,
\* so the child left of the promoted key is also the first child of the new
\* node
Internal_split_shared(h, handle) ==
    LET n       == handle.node.node
        new     == Alloc(h)
        new_len == h[n].len - handle.idx - 1
        new_node == [InternalNode_new EXCEPT
                        !.keys  = copy_out(h[n].keys, handle.idx + 1, @, new_len),
                        !.vals  = copy_out(h[n].vals, handle.idx + 1, @, new_len),
                        !.edges = copy_out(h[n].edges, handle.idx, @, new_len + 1),
                        !.len   = new_len]
        left    == [h[n] EXCEPT
                        !.keys = moved_out(@, handle.idx, new_len + 1, Uninit),
                        !.vals = moved_out(@, handle.idx, new_len + 1, Uninit),
                        !.len  = handle.idx]
        new_root == [node |-> new, height |-> handle.node.height]
    IN  [h     |-> correct_parent_links(Store(Store(h, n, left), new, new_node),
                                        Root_as_ref(new_root), 0, new_len + 1),
         left  |-> handle.node,
         k     |-> h[n].keys[handle.idx],
         v     |-> h[n].vals[handle.idx],
         right |-> new_root]

\* faulty Handle<Internal, KV>::split: the children moved to the new node
\* keep the parent link they had
Internal_split_unlinked(h, handle) ==
    LET n       == handle.node.node
        new     == Alloc(h)
        new_len == h[n].len - handle.idx - 1
        new_node == [InternalNode_new EXCEPT
                        !.keys  = copy_out(h[n].keys, handle.idx + 1, @, new_len),
                        !.vals  = copy_out(h[n].vals, handle.idx + 1, @, new_len),
                        !.edges = copy_out(h[n].edges, handle.idx + 1, @, new_len + 1),
                        !.len   = new_len]
        left    == [h[n] EXCEPT
                        !.keys = moved_out(@, handle.idx, new_len + 1, Uninit),
                        !.vals = moved_out(@, handle.idx, new_len + 1, Uninit),
                        !.len  = handle.idx]
    IN  [h     |-> Store(Store(h, n, left), new, new_node),
         left  |-> handle.node,
         k     |-> h[n].keys[handle.idx],
         v     |-> h[n].vals[handle.idx],
         right |-> [node |-> new, height |-> handle.node.height]]

\* faulty Handle<Internal, KV>::split: the new Root gets height 0, as in the
\* split of a leaf
Internal_split_flat(h, handle) ==
    LET n       == handle.node.node
        new     == Alloc(h)
        new_len == h[n].len - handle.idx - 1
        new_node == [InternalNode_new EXCEPT
                        !.keys  = copy_out(h[n].keys, handle.idx + 1, @, new_len),
                        !.vals  = copy_out(h[n].vals, handle.idx + 1, @, new_len),
                        !.edges = copy_out(h[n].edges, handle.idx + 1, @, new_len + 1),
                        !.len   = new_len]
        left    == [h[n] EXCEPT
                        !.keys = moved_out(@, handle.idx, new_len + 1, Uninit),
                        !.vals = moved_out(@, handle.idx, new_len + 1, Uninit),
                        !.len  = handle.idx]
        new_root == [node |-> new, height |-> 0]
    IN  [h     |-> correct_parent_links(Store(Store(h, n, left), new, new_node),
                                        Root_as_ref(new_root), 0, new_len + 1),
         left  |-> handle.node,
         k     |-> h[n].keys[handle.idx],
         v     |-> h[n].vals[handle.idx],
         right |-> new_root]

\* Handle<Internal, KV>::split
Internal_split(h, handle) ==
    LET n       == handle.node.node
        new     == Alloc(h)
        new_len == h[n].len - handle.idx - 1
        new_node == [InternalNode_new EXCEPT
                        !.keys  = copy_out(h[n].keys, handle.idx + 1, @, new_len),
                        !.vals  = copy_out(h[n].vals, handle.idx + 1, @, new_len),
                        !.edges = copy_out(h[n].edges, handle.idx + 1, @, new_len + 1),
                        !.len   = new_len]
        left    == [h[n] EXCEPT
                        !.keys = moved_out(@, handle.idx, new_len + 1, Uninit),
                        !.vals = moved_out(@, handle.idx, new_len + 1, Uninit),
                        !.len  = handle.idx]
        new_root == [node |-> new, height |-> handle.node.height]
    IN  [h     |-> correct_parent_links(Store(Store(h, n, left), new, new_node),
                                        Root_as_ref(new_root), 0, new_len + 1),
         left  |-> handle.node,
         k     |-> h[n].keys[handle.idx],
         v     |-> h[n].vals[handle.idx],
         right |-> new_root]

\* Handle<Internal, Edge>::insert, the full node: s is what middle.split()
\* returned
Internal_insert_split(s, handle, key, val, edge) ==
    InsertResult_Split(s,
        IF handle.idx <= T
        THEN Internal_insert_unchecked(s.h, Handle_new(s.left, handle.idx),
                                       key, val, edge)
        ELSE Internal_insert_unchecked(s.h,
                 Handle_new(Root_as_ref(s.right), handle.idx - T - 1),
                 key, val, edge))

\* faulty Handle<Internal, Edge>::insert: in a node with room the key and
\* the value are inserted without the edge
Internal_insert_keyonly(h, handle, key, val, edge) ==
    IF NodeRef_len(h, handle.node) < capacity
    THEN InsertResult_Fit(Leaf_insert_unchecked(h, handle, key, val).h, handle)
    ELSE Internal_insert_split(Internal_split(h, Handle_new(handle.node, T)),
                               handle, key, val, edge)

\* Handle<Internal, Edge>::insert
Internal_insert(h, handle, key, val, edge) ==
    IF NodeRef_len(h, handle.node) < capacity
    THEN InsertResult_Fit(Internal_insert_unchecked(h, handle, key, val, edge),
                          handle)
    ELSE Internal_insert_split(Internal_split(h, Handle_new(handle.node, T)),
                               handle, key, val, edge)

\* faulty Root::enlarge: self.height is not incremented
Root_enlarge_at_flat(h, r, new) ==
    [h    |-> correct_parent_link(
                  Store(h, new, [InternalNode_new EXCEPT !.edges[0] = r.node]),
                  Handle_new([height |-> r.height + 1, node |-> new], 0)),
     root |-> [node |-> new, height |-> r.height],
     ret  |-> [height |-> r.height + 1, node |-> new]]

\* Root::enlarge, with `new` the node Box::new returned: the heap, the new
\* Root and the NodeRef of the new root node
Root_enlarge_at(h, r, new) ==
    [h    |-> correct_parent_link(
                  Store(h, new, [InternalNode_new EXCEPT !.edges[0] = r.node]),
                  Handle_new([height |-> r.height + 1, node |-> new], 0)),
     root |-> [node |-> new, height |-> r.height + 1],
     ret  |-> [height |-> r.height + 1, node |-> new]]

\* Root::enlarge
Root_enlarge(h, r) == Root_enlarge_at(h, r, Alloc(h))

\* faulty NodeRef<Internal>::push: the parent link of the pushed edge is not
\* corrected
NodeRef_push_unlinked(h, node, key, val, edge) ==
    LET n   == node.node
        idx == NodeRef_len(h, node)
    IN  [h EXCEPT ![n].keys[idx] = key,
                  ![n].vals[idx] = val,
                  ![n].edges[idx + 1] = edge.node,
                  ![n].len = @ + 1]

\* NodeRef<Internal>::push
NodeRef_push(h, node, key, val, edge) ==
    LET n   == node.node
        idx == NodeRef_len(h, node)
    IN  [correct_parent_link(
             [h EXCEPT ![n].keys[idx] = key,
                       ![n].vals[idx] = val,
                       ![n].edges[idx + 1] = edge.node],
             Handle_new(node, idx + 1))
         EXCEPT ![n].len = @ + 1]

------------------------------------------------------------------------------
(* map.rs: lookup, entry and insertion                                     *)

\* Option<_>
None == [some |-> FALSE]

Some(x) == [some |-> TRUE, val |-> x]

\* Handle<_, KV>::into_kv / into_kv_mut: the value slot of the handle
into_kv(h, handle) == h[handle.node.node].vals[handle.idx]

\* BTreeMap::new
BTreeMap_new == [h |-> Root_new_leaf.h, root |-> Root_new_leaf.root, length |-> 0]

\* BTreeMap::get
BTreeMap_get(h, r, key) ==
    LET s == search_tree(h, Root_as_ref(r), key)
    IN  IF s.found THEN Some(into_kv(h, s.handle)) ELSE None

\* BTreeMap::contains_key
BTreeMap_contains_key(h, r, key) == BTreeMap_get(h, r, key).some

\* faulty BTreeMap::get_mut: the GoDown arm also returns the slot at the
\* handle
BTreeMap_get_mut_anywhere(h, r, key) ==
    LET s == search_tree(h, Root_as_ref(r), key)
    IN  Some([node |-> s.handle.node.node, idx |-> s.handle.idx])

\* BTreeMap::get_mut: Option<&mut V>, the reference as the slot it designates
BTreeMap_get_mut(h, r, key) ==
    LET s == search_tree(h, Root_as_ref(r), key)
    IN  IF s.found
        THEN Some([node |-> s.handle.node.node, idx |-> s.handle.idx])
        ELSE None

\* `*x = v` for a &mut V x
Write(h, ptr, v) == [h EXCEPT ![ptr.node].vals[ptr.idx] = v]

\* `if let Some(x) = map.get_mut(&k) { *x = v }`, g what get_mut returned
GetMut_write(h, r, len, g, v) ==
    IF g.some
    THEN [h |-> Write(h, g.val, v), root |-> r, length |-> len, ptr |-> g.val]
    ELSE [h |-> h, root |-> r, length |-> len]

\* BTreeMap::len
BTreeMap_len(len) == len

\* BTreeMap::is_empty
BTreeMap_is_empty(len) == BTreeMap_len(len) = 0

\* BTreeMap::entry: Occupied(kv handle) or Vacant(key, leaf edge handle)
BTreeMap_entry(h, r, key) ==
    LET s == search_tree(h, Root_as_ref(r), key)
    IN  [occupied |-> s.found, key |-> key, handle |-> s.handle]

\* a method on &self that returns ret: the map afterwards and ret
Borrowed(h, r, len, ret) == [h |-> h, root |-> r, length |-> len, ret |-> ret]

\* faulty BTreeMap::entry: a Vacant entry counts its key before any insert
Entry_dropped_counted(h, r, len, entry) ==
    [h |-> h, root |-> r,
     length |-> IF entry.occupied THEN len ELSE len + 1,
     ret |-> Some(entry.occupied)]

\* an Entry that goes out of scope unused (Entry has no Drop impl): the map
\* afterwards, and whether the entry was Occupied
Entry_dropped(h, r, len, entry) ==
    [h |-> h, root |-> r, length |-> len, ret |-> Some(entry.occupied)]

\* faulty Err(root) arm: the root is enlarged twice before the push
VacantEntry_insert_grow_twice(e, ins_k, ins_v, ins_edge) ==
    [h    |-> NodeRef_push(Root_enlarge(e.h, e.root).h, Root_enlarge(e.h, e.root).ret,
                           ins_k, ins_v, ins_edge),
     root |-> Root_enlarge(e.h, e.root).root]

\* the Err(root) arm of the loop of VacantEntry::insert: e is what
\* root.enlarge() returned
VacantEntry_insert_grow(e, ins_k, ins_v, ins_edge) ==
    [h |-> NodeRef_push(e.h, e.ret, ins_k, ins_v, ins_edge), root |-> e.root]

\* the loop of VacantEntry::insert: push the promoted triple into cur_parent
RECURSIVE VacantEntry_insert_loop(_, _, _, _, _, _)
RECURSIVE VacantEntry_insert_parent(_, _)

VacantEntry_insert_loop(h, r, cur_parent, ins_k, ins_v, ins_edge) ==
    IF cur_parent.ok
    THEN VacantEntry_insert_parent(r,
             Internal_insert(h, cur_parent.handle, ins_k, ins_v, ins_edge))
    ELSE VacantEntry_insert_grow(Root_enlarge(h, r), ins_k, ins_v, ins_edge)

\* the Ok(parent) arm of the loop: i is what parent.insert returned
VacantEntry_insert_parent(r, i) ==
    IF i.fit THEN [h |-> i.h, root |-> r]
    ELSE VacantEntry_insert_loop(i.h, r, ascend(i.h, i.left), i.k, i.v, i.right)

\* faulty VacantEntry::insert: the parent is looked for from the new right
\* sibling, not from the node that was split
VacantEntry_insert_leaf_right(r, len, i) ==
    IF i.fit
    THEN [h |-> i.h, root |-> r, length |-> len + 1,
          ptr |-> [node |-> i.handle.node.node, idx |-> i.handle.idx]]
    ELSE VacantEntry_insert_loop(i.h, r, ascend(i.h, i.right), i.k, i.v, i.right)
             @@ [length |-> len + 1, ptr |-> i.ptr]

\* VacantEntry::insert after self.handle.insert returned i: the map
\* afterwards and the &mut V it returns
VacantEntry_insert_leaf(r, len, i) ==
    IF i.fit
    THEN [h |-> i.h, root |-> r, length |-> len + 1,
          ptr |-> [node |-> i.handle.node.node, idx |-> i.handle.idx]]
    ELSE VacantEntry_insert_loop(i.h, r, ascend(i.h, i.left), i.k, i.v, i.right)
             @@ [length |-> len + 1, ptr |-> i.ptr]

\* VacantEntry::insert
VacantEntry_insert(h, r, len, entry, value) ==
    VacantEntry_insert_leaf(r, len,
                            Leaf_insert(h, entry.handle, entry.key, value))

\* faulty OccupiedEntry::insert: returns the value it has just stored
OccupiedEntry_insert_fresh(h, entry, value) ==
    [h   |-> [h EXCEPT ![entry.handle.node.node].vals[entry.handle.idx] = value],
     old |-> value]

\* OccupiedEntry::insert: mem::replace on the value slot
OccupiedEntry_insert(h, entry, value) ==
    [h   |-> [h EXCEPT ![entry.handle.node.node].vals[entry.handle.idx] = value],
     old |-> into_kv(h, entry.handle)]

\* OccupiedEntry::into_mut: the &mut V of the entry
OccupiedEntry_into_mut(entry) ==
    [node |-> entry.handle.node.node, idx |-> entry.handle.idx]

\* faulty Occupied arm of BTreeMap::insert: the replacement is counted
BTreeMap_insert_occupied_counted(r, len, o) ==
    [h |-> o.h, root |-> r, length |-> len + 1, ret |-> Some(o.old)]

\* the Occupied arm of BTreeMap::insert: o is what entry.insert returned
BTreeMap_insert_occupied(r, len, o) ==
    [h |-> o.h, root |-> r, length |-> len, ret |-> Some(o.old)]

\* the Vacant arm of BTreeMap::insert: v is what entry.insert returned, and
\* the reference is dropped
BTreeMap_insert_vacant(v) ==
    [h |-> v.h, root |-> v.root, length |-> v.length, ret |-> None]

\* faulty BTreeMap::insert: an Occupied entry is inserted into like a Vacant
\* one, at the handle of the key found
BTreeMap_insert_entry_again(h, r, len, e, value) ==
    BTreeMap_insert_vacant(VacantEntry_insert(h, r, len, e, value))

\* BTreeMap::insert on the entry e: the map afterwards and the Option<V> it
\* returns
BTreeMap_insert_entry(h, r, len, e, value) ==
    IF e.occupied
    THEN BTreeMap_insert_occupied(r, len, OccupiedEntry_insert(h, e, value))
    ELSE BTreeMap_insert_vacant(VacantEntry_insert(h, r, len, e, value))

\* BTreeMap::insert
BTreeMap_insert(h, r, len, key, value) ==
    BTreeMap_insert_entry(h, r, len, BTreeMap_entry(h, r, key), value)

\* faulty Entry::or_insert: the default replaces the value of an occupied
\* entry
Entry_or_insert_overwrite(h, r, len, entry, default) ==
    IF entry.occupied
    THEN [h |-> OccupiedEntry_insert(h, entry, default).h, root |-> r,
          length |-> len, ptr |-> OccupiedEntry_into_mut(entry)]
    ELSE VacantEntry_insert(h, r, len, entry, default)

\* Entry::or_insert: the map afterwards and the &mut V it returns
Entry_or_insert(h, r, len, entry, default) ==
    IF entry.occupied
    THEN [h |-> h, root |-> r, length |-> len, ptr |-> OccupiedEntry_into_mut(entry)]
    ELSE VacantEntry_insert(h, r, len, entry, default)

------------------------------------------------------------------------------
(* map.rs: iteration                                                       *)

\* first_leaf_edge
RECURSIVE first_leaf_edge(_, _)
first_leaf_edge(h, node) ==
    IF node.height = 0 THEN Handle_new(node, 0)
    ELSE first_leaf_edge(h, descend(h, Handle_new(node, 0)))

\* faulty BTreeMap::iter: the cursor is the first edge of the root node
BTreeMap_iter_root(h, r) == Some(Handle_new(Root_as_ref(r), 0))

\* BTreeMap::iter: the cursor of a new Iter
BTreeMap_iter(h, r) == Some(first_leaf_edge(h, Root_as_ref(r)))

\* the `loop` of Iter::next at an edge handle of an internal node
RECURSIVE Iter_next_loop(_, _)
Iter_next_loop(h, cur_handle) ==
    IF cur_handle.idx < NodeRef_len(h, cur_handle.node)
    THEN [ret    |-> Some(<<h[cur_handle.node.node].keys[cur_handle.idx],
                            h[cur_handle.node.node].vals[cur_handle.idx]>>),
          handle |-> Some(first_leaf_edge(h,
                        descend(h, Handle_new(cur_handle.node, cur_handle.idx + 1))))]
    ELSE LET a == ascend(h, cur_handle.node)
         IN  IF a.ok THEN Iter_next_loop(h, a.handle)
             ELSE [ret |-> None, handle |-> None]

\* faulty Iter::next: in a leaf the cursor moves on by two edges
Iter_next_skip(h, cursor) ==
    IF ~cursor.some THEN [ret |-> None, handle |-> None]
    ELSE LET handle == cursor.val
         IN  IF handle.idx < NodeRef_len(h, handle.node)
             THEN [ret    |-> Some(<<h[handle.node.node].keys[handle.idx],
                                     h[handle.node.node].vals[handle.idx]>>),
                   handle |-> Some(Handle_new(handle.node, handle.idx + 2))]
             ELSE LET a == ascend(h, handle.node)
                  IN  IF a.ok THEN Iter_next_loop(h, a.handle)
                      ELSE [ret |-> None, handle |-> None]

\* faulty Iter::next: the cursor is read, not taken, and stays on the last
\* edge when the ascent fails at the root
Iter_next_kept(h, cursor) ==
    IF ~cursor.some THEN [ret |-> None, handle |-> None]
    ELSE LET handle == cursor.val
         IN  IF handle.idx < NodeRef_len(h, handle.node)
             THEN [ret    |-> Some(<<h[handle.node.node].keys[handle.idx],
                                     h[handle.node.node].vals[handle.idx]>>),
                   handle |-> Some(Handle_new(handle.node, handle.idx + 1))]
             ELSE LET a == ascend(h, handle.node)
                  IN  IF a.ok /\ Iter_next_loop(h, a.handle).ret.some
                      THEN Iter_next_loop(h, a.handle)
                      ELSE [ret |-> None, handle |-> cursor]

\* Iter::next: what it returns and the cursor it leaves
Iter_next(h, cursor) ==
    IF ~cursor.some THEN [ret |-> None, handle |-> None]
    ELSE LET handle == cursor.val
         IN  IF handle.idx < NodeRef_len(h, handle.node)
             THEN [ret    |-> Some(<<h[handle.node.node].keys[handle.idx],
                                     h[handle.node.node].vals[handle.idx]>>),
                   handle |-> Some(Handle_new(handle.node, handle.idx + 1))]
             ELSE LET a == ascend(h, handle.node)
                  IN  IF a.ok THEN Iter_next_loop(h, a.handle)
                      ELSE [ret |-> None, handle |-> None]

\* BTreeMap::iter_mut: the cursor of a new IterMut
BTreeMap_iter_mut(h, r) == Some(first_leaf_edge(h, Root_as_ref(r)))

\* the `loop` of IterMut::next at an edge handle of an internal node; the
\* &mut V yielded is the slot it designates
RECURSIVE IterMut_next_loop(_, _)
IterMut_next_loop(h, cur_handle) ==
    IF cur_handle.idx < NodeRef_len(h, cur_handle.node)
    THEN [ret    |-> Some(<<h[cur_handle.node.node].keys[cur_handle.idx],
                            [node |-> cur_handle.node.node,
                             idx  |-> cur_handle.idx]>>),
          handle |-> Some(first_leaf_edge(h,
                        descend(h, Handle_new(cur_handle.node, cur_handle.idx + 1))))]
    ELSE LET a == ascend(h, cur_handle.node)
         IN  IF a.ok THEN IterMut_next_loop(h, a.handle)
             ELSE [ret |-> None, handle |-> None]

\* faulty IterMut::next: in a leaf the pair at the cursor is passed over
IterMut_next_skip(h, cursor) ==
    IF ~cursor.some THEN [ret |-> None, handle |-> None]
    ELSE LET handle == cursor.val
         IN  IF handle.idx + 1 < NodeRef_len(h, handle.node)
             THEN [ret    |-> Some(<<h[handle.node.node].keys[handle.idx + 1],
                                     [node |-> handle.node.node,
                                      idx  |-> handle.idx + 1]>>),
                   handle |-> Some(Handle_new(handle.node, handle.idx + 2))]
             ELSE LET a == ascend(h, handle.node)
                  IN  IF a.ok THEN IterMut_next_loop(h, a.handle)
                      ELSE [ret |-> None, handle |-> None]

\* IterMut::next: what it returns and the cursor it leaves
IterMut_next(h, cursor) ==
    IF ~cursor.some THEN [ret |-> None, handle |-> None]
    ELSE LET handle == cursor.val
         IN  IF handle.idx < NodeRef_len(h, handle.node)
             THEN [ret    |-> Some(<<h[handle.node.node].keys[handle.idx],
                                     [node |-> handle.node.node,
                                      idx  |-> handle.idx]>>),
                   handle |-> Some(Handle_new(handle.node, handle.idx + 1))]
             ELSE LET a == ascend(h, handle.node)
                  IN  IF a.ok THEN IterMut_next_loop(h, a.handle)
                      ELSE [ret |-> None, handle |-> None]

------------------------------------------------------------------------------
(* map.rs: consuming iteration, drop and clear                             *)

\* heap::deallocate
deallocate(h, n) == [m \in (DOMAIN h) \ {n} |-> h[m]]

\* faulty NodeRef::deallocate_and_ascend: an internal node is left allocated
deallocate_and_ascend_kept(h, node) ==
    LET a == ascend(h, node)
    IN  [h   |-> IF node.height = 0 THEN deallocate(h, node.node) ELSE h,
         ret |-> IF a.ok THEN Some(a.handle) ELSE None]

\* NodeRef::deallocate_and_ascend: Option<edge handle in the parent>
deallocate_and_ascend(h, node) ==
    LET a == ascend(h, node)
    IN  [h   |-> deallocate(h, node.node),
         ret |-> IF a.ok THEN Some(a.handle) ELSE None]

\* the `loop` of IntoIter::next at an edge handle of an internal node
RECURSIVE IntoIter_next_loop(_, _)
IntoIter_next_loop(h, cur_handle) ==
    IF cur_handle.idx < NodeRef_len(h, cur_handle.node)
    THEN [h      |-> h,
          ret    |-> Some(<<h[cur_handle.node.node].keys[cur_handle.idx],
                            h[cur_handle.node.node].vals[cur_handle.idx]>>),
          handle |-> Some(first_leaf_edge(h,
                        descend(h, Handle_new(cur_handle.node, cur_handle.idx + 1))))]
    ELSE LET d == deallocate_and_ascend(h, cur_handle.node)
         IN  IF d.ret.some THEN IntoIter_next_loop(d.h, d.ret.val)
             ELSE [h |-> d.h, ret |-> None, handle |-> None]

\* IntoIter::next: the heap, what it returns and the cursor it leaves
IntoIter_next(h, cursor) ==
    IF ~cursor.some THEN [h |-> h, ret |-> None, handle |-> None]
    ELSE LET handle == cursor.val
         IN  IF handle.idx < NodeRef_len(h, handle.node)
             THEN [h      |-> h,
                   ret    |-> Some(<<h[handle.node.node].keys[handle.idx],
                                     h[handle.node.node].vals[handle.idx]>>),
                   handle |-> Some(Handle_new(handle.node, handle.idx + 1))]
             ELSE LET d == deallocate_and_ascend(h, handle.node)
                  IN  IF d.ret.some THEN IntoIter_next_loop(d.h, d.ret.val)
                      ELSE [h |-> d.h, ret |-> None, handle |-> None]

\* BTreeMap::into_iter: the cursor of the IntoIter
BTreeMap_into_iter(h, r) == Some(first_leaf_edge(h, Root_as_ref(r)))

\* `for _ in ... { }`: next() until it returns None; the heap that is left
RECURSIVE IntoIter_drain(_, _)
IntoIter_drain(h, cursor) ==
    LET n == IntoIter_next(h, cursor)
    IN  IF n.ret.some THEN IntoIter_drain(n.h, n.handle) ELSE n.h

\* Drop for BTreeMap: the heap that is left
BTreeMap_drop(h, r) == IntoIter_drain(h, BTreeMap_into_iter(h, r))

\* BTreeMap::new into the heap d, in which the old map has been dropped
BTreeMap_new_in(d, new) ==
    [h |-> Store(d, new, LeafNode_new), root |-> [node |-> new, height |-> 0],
     length |-> 0]

\* BTreeMap::clear: `*self = BTreeMap::new()` drops the old map.  Node names
\* stand for addresses, which no operation observes: the new root leaf takes
\* the first name free once the old map's nodes are released.
BTreeMap_clear_dropped(d) == BTreeMap_new_in(d, Alloc(d))

\* faulty BTreeMap::clear: the count is reset and the tree is kept
BTreeMap_clear_kept(h, r) == [h |-> h, root |-> r, length |-> 0]

BTreeMap_clear(h, r) == BTreeMap_clear_dropped(BTreeMap_drop(h, r))

------------------------------------------------------------------------------
(* The map and its callers                                                 *)

\* the log with key k stored as v
Logged(l, k, v) == [x \in (DOMAIN l) \cup {k} |-> IF x = k THEN v ELSE l[x]]

\* the value the log holds for k, as an Option
Lookup(l, k) == IF k \in DOMAIN l THEN Some(l[k]) ELSE None

\* the value a returned &mut V designates
Deref(h, ptr) == h[ptr.node].vals[ptr.idx]

Init ==
    /\ nodes = BTreeMap_new.h
    /\ root = BTreeMap_new.root
    /\ length = BTreeMap_new.length
    /\ log = <<>>
    /\ last = [op |-> "new", key |-> NULL, val |-> NULL, ret |-> None,
               ptr |-> None, before |-> None, live |-> 1, seq |-> <<>>]
    /\ iters = <<>>

\* the call op(k, v) returns: r is the map afterwards with what the call
\* returned (ret: an Option<V>, ptr: a &mut V, seq: the pairs an iteration
\* yielded), l the log afterwards
Returns(op, k, v, r, l) ==
    /\ nodes' = r.h
    /\ root' = r.root
    /\ length' = r.length
    /\ log' = l
    /\ last' = [op |-> op, key |-> k, val |-> v,
                ret |-> IF "ret" \in DOMAIN r THEN r.ret ELSE None,
                ptr |-> IF "ptr" \in DOMAIN r THEN Some(r.ptr) ELSE None,
                before |-> IF k = NULL THEN None ELSE Lookup(log, k),
                live |-> Cardinality(DOMAIN r.h) - Cardinality(DOMAIN nodes),
                seq |-> IF "seq" \in DOMAIN r THEN r.seq ELSE <<>>]
    /\ iters' = iters

\* map.insert(k, v)
Insert(k, v) ==
    Returns("insert", k, v, BTreeMap_insert(nodes, root, length, k, v),
            Logged(log, k, v))

\* *map.entry(k).or_insert(v)
OrInsert(k, v) ==
    Returns("or_insert", k, v,
            Entry_or_insert(nodes, root, length, BTreeMap_entry(nodes, root, k), v),
            IF k \in DOMAIN log THEN log ELSE Logged(log, k, v))

\* map.clear()
Clear == Returns("clear", NULL, NULL, BTreeMap_clear(nodes, root), <<>>)

\* the keys a caller may pass next
Callable == Fresh(DOMAIN log) \cup (HotKeys \cap DOMAIN log)

Next ==
    \/ \E k \in Callable : \E v \in ValsOf(k) : Insert(k, v)
    \/ \E k \in Callable : \E v \in ValsOf(k) : OrInsert(k, v)
    \/ Clear

Spec == Init /\ [][Next]_vars

------------------------------------------------------------------------------
(* A caller that looks into the map                                        *)

\* A second caller fills the low band downwards and, at any point, looks
\* into the map: it holds up to two Iter values at a time (the second one on
\* maps of up to IterLen entries) and calls next() on them in any order.
\* The map is not changed while an Iter borrows it.
IterLen == 24

IterIds == {1, 2}

\* the keys this caller may store next
ViewCallable == Fresh(DOMAIN log) \cap LowBand

\* faulty Iter::next: one cursor is shared by all the iterators of the map
Iter_store_shared(its, i, n) ==
    [j \in DOMAIN its |->
        IF j = i
        THEN [handle |-> n.handle,
              seq    |-> IF n.ret.some THEN Append(its[j].seq, n.ret.val)
                         ELSE its[j].seq,
              done   |-> ~n.ret.some]
        ELSE [its[j] EXCEPT !.handle = n.handle]]

\* self.handle = ... in Iter::next, and what the caller keeps of `n`, the
\* result of next() on iterator i
Iter_store(its, i, n) ==
    [its EXCEPT ![i] = [handle |-> n.handle,
                        seq    |-> IF n.ret.some THEN Append(@.seq, n.ret.val)
                                   ELSE @.seq,
                        done   |-> ~n.ret.some]]

\* the map is left as it is and the call is recorded as the last one
Looks(op, its) ==
    /\ iters' = its
    /\ last' = [op |-> op, key |-> NULL, val |-> NULL, ret |-> None,
                ptr |-> None, before |-> None, live |-> 0, seq |-> <<>>]
    /\ UNCHANGED <<nodes, root, length, log>>

\* the Root of a map that was moved into an IntoIter
Moved == [node |-> NULL, height |-> 0]

\* the caller has the map and no Iter borrows it
Idle == iters = <<>> /\ root.node # NULL

\* map.insert(k, v) of a new key, with no Iter alive
Build ==
    /\ Idle
    /\ \E k \in ViewCallable : \E v \in ValsOf(k) : Insert(k, v)

\* the keys this caller looks up: one stored twice, absent at first, then in
\* a leaf, then in an internal node, and the next new key, which is absent
ViewKeys == HotKeys \cup ViewCallable

\* if let Some(x) = map.get_mut(&k) { *x = v }
GetMut(k, v) ==
    /\ Idle
    /\ Returns("get_mut", k, v,
               GetMut_write(nodes, root, length,
                            BTreeMap_get_mut(nodes, root, k), v),
               IF k \in DOMAIN log THEN Logged(log, k, v) ELSE log)

\* map.get(&k)
Get(k) ==
    /\ Idle
    /\ Returns("get", k, NULL,
               Borrowed(nodes, root, length, BTreeMap_get(nodes, root, k)), log)

\* map.contains_key(&k)
ContainsKey(k) ==
    /\ Idle
    /\ Returns("contains_key", k, NULL,
               Borrowed(nodes, root, length,
                        Some(BTreeMap_contains_key(nodes, root, k))), log)

\* map.len()
Len_ ==
    /\ Idle
    /\ Returns("len", NULL, NULL,
               Borrowed(nodes, root, length, Some(BTreeMap_len(length))), log)

\* map.is_empty()
IsEmpty ==
    /\ Idle
    /\ Returns("is_empty", NULL, NULL,
               Borrowed(nodes, root, length, Some(BTreeMap_is_empty(length))),
               log)

\* let _ = map.entry(k)
EntryDropped(k) ==
    /\ Idle
    /\ Returns("entry", k, NULL,
               Entry_dropped(nodes, root, length, BTreeMap_entry(nodes, root, k)),
               log)

\* for (key, val) in map.iter_mut() { if *key == k { *val = v } }, from the
\* cursor on: the heap afterwards and the pairs yielded, each value as it was
\* when yielded
RECURSIVE IterMut_pass(_, _, _, _, _, _)
IterMut_pass(h, cursor, k, v, acc, fuel) ==
    IF fuel = 0 THEN [h |-> h, seq |-> acc]
    ELSE LET n == IterMut_next(h, cursor)
         IN  IF n.ret.some
             THEN IterMut_pass(IF n.ret.val[1] = k
                               THEN Write(h, n.ret.val[2], v) ELSE h,
                               n.handle, k, v,
                               Append(acc, <<n.ret.val[1], Deref(h, n.ret.val[2])>>),
                               fuel - 1)
             ELSE [h |-> h, seq |-> acc]

\* the loop over map.iter_mut(): the map afterwards and the pairs yielded
ForIterMut(h, r, len, k, v) ==
    IterMut_pass(h, BTreeMap_iter_mut(h, r), k, v, <<>>, MaxKey + 2)
        @@ [root |-> r, length |-> len]

\* for (key, val) in map { }, from the cursor on: the heap that is left and
\* the pairs yielded
RECURSIVE IntoIter_collect(_, _, _)
IntoIter_collect(h, cursor, acc) ==
    LET n == IntoIter_next(h, cursor)
    IN  IF n.ret.some
        THEN IntoIter_collect(n.h, n.handle, Append(acc, n.ret.val))
        ELSE [h |-> n.h, seq |-> acc]

\* the loop over map.into_iter(): the map is moved into the IntoIter
ForIntoIter(h, r) ==
    IntoIter_collect(h, BTreeMap_into_iter(h, r), <<>>)
        @@ [root |-> Moved, length |-> 0]

\* for (key, val) in map.iter_mut() { if *key == k { *val = v } }
IterMutWrite(k, v) ==
    /\ Idle
    /\ Returns("iter_mut", k, v, ForIterMut(nodes, root, length, k, v),
               IF k \in DOMAIN log THEN Logged(log, k, v) ELSE log)

\* for (key, val) in map { }
IntoIterAll ==
    /\ Idle
    /\ Returns("into_iter", NULL, NULL, ForIntoIter(nodes, root), <<>>)

\* let it_i = map.iter()
IterNew(i) ==
    /\ root.node # NULL
    /\ i = 2 => BTreeMap_len(length) <= IterLen
    /\ Looks("iter", [j \in (DOMAIN iters) \cup {i} |->
                         IF j = i
                         THEN [handle |-> BTreeMap_iter(nodes, root),
                               seq |-> <<>>, done |-> FALSE]
                         ELSE iters[j]])

\* it_i.next()
IterNext(i) ==
    /\ i \in DOMAIN iters
    /\ ~iters[i].done
    /\ Looks("next", Iter_store(iters, i, Iter_next(nodes, iters[i].handle)))

\* it_i.next() once more, after it returned None
IterNextAgain(i) ==
    /\ i \in DOMAIN iters
    /\ iters[i].done
    /\ Looks("next_again", Iter_store(iters, i, Iter_next(nodes, iters[i].handle)))

\* it_i goes out of scope
IterDrop(i) ==
    /\ i \in DOMAIN iters
    /\ Looks("iter", [j \in (DOMAIN iters) \ {i} |-> iters[j]])

NextView ==
    \/ Build
    \/ \E k \in ViewKeys : \E v \in ValsOf(k) : GetMut(k, v)
    \/ \E k \in ViewKeys : Get(k)
    \/ \E k \in ViewKeys : ContainsKey(k)
    \/ Len_
    \/ IsEmpty
    \/ \E k \in ViewKeys : EntryDropped(k)
    \/ \E k \in ViewKeys : \E v \in ValsOf(k) : IterMutWrite(k, v)
    \/ IntoIterAll
    \/ \E i \in IterIds : IterNew(i)
    \/ \E i \in IterIds : IterNext(i)
    \/ \E i \in IterIds : IterNextAgain(i)
    \/ \E i \in IterIds : IterDrop(i)

SpecView == Init /\ [][NextView]_vars

------------------------------------------------------------------------------
(* A caller that builds a deep tree                                        *)

\* A third caller stores up to DeepLen keys, all even: the key 2 * DeepLen
\* first, then a run of even keys downwards from it and then a run upwards
\* from it; each run may stop at any point or be skipped.  Long runs fill
\* the internal nodes under a root of height 2, and the odd keys, never
\* stored, lie between every two neighbours.
DeepLen == 121

\* the key the caller of the deep tree may store next
DeepCallable ==
    IF log = <<>> THEN {2 * DeepLen}
    ELSE IF Cardinality(DOMAIN log) >= DeepLen THEN {}
    ELSE (IF Max(DOMAIN log) = 2 * DeepLen THEN {Min(DOMAIN log) - 2} ELSE {})
         \cup {Max(DOMAIN log) + 2}

\* the keys looked up in the deep tree: from just below the smallest stored
\* key to just above the largest
DeepProbes ==
    IF log = <<>> THEN {2 * DeepLen}
    ELSE (Min(DOMAIN log) - 1)..(Max(DOMAIN log) + 1)

NextDeep == \E k \in DeepCallable : Insert(k, 10 * k)

SpecDeep == Init /\ [][NextDeep]_vars

------------------------------------------------------------------------------
(* A caller that searches one node                                         *)

\* A fourth caller starts from a map that holds any set of keys out of
\* 1..SearchMax, few enough to lie in one node, and calls search_node on that
\* node with keys from 0 to SearchMax + 1.
SearchMax == 7

\* the map m with the keys of S inserted, smallest first
RECURSIVE InsertAll(_, _)
InsertAll(m, S) ==
    IF S = {} THEN m
    ELSE InsertAll(BTreeMap_insert(m.h, m.root, m.length, Min(S), 10 * Min(S)),
                   S \ {Min(S)})

InitSearch ==
    \E S \in SUBSET (1..SearchMax) :
        /\ nodes = InsertAll(BTreeMap_new, S).h
        /\ root = InsertAll(BTreeMap_new, S).root
        /\ length = InsertAll(BTreeMap_new, S).length
        /\ log = [k \in S |-> 10 * k]
        /\ last = [op |-> "new", key |-> NULL, val |-> NULL, ret |-> None,
                   ptr |-> None, before |-> None, live |-> 1, seq |-> <<>>]
        /\ iters = <<>>

\* search_node(root.as_ref(), &q)
SearchNode(q) ==
    /\ last' = [last EXCEPT !.op = "search_node", !.key = q,
                            !.ret = Some(search_node(nodes, Root_as_ref(root), q))]
    /\ UNCHANGED <<nodes, root, length, log, iters>>

NextSearch == \E q \in 0..(SearchMax + 1) : SearchNode(q)

SpecSearch == InitSearch /\ [][NextSearch]_vars

------------------------------------------------------------------------------
(* A caller that consumes the map                                          *)

\* A fourth caller stores up to OwnedLen keys, moves the map into an
\* IntoIter, calls next() any number of times and lets the IntoIter go out
\* of scope, exhausted or not.  iters[1] is the IntoIter.
OwnedLen == 14

OwnedCallable ==
    IF Cardinality(DOMAIN log) < OwnedLen THEN Fresh(DOMAIN log) \cap LowBand ELSE {}

\* an IntoIter goes out of scope: the struct has no Drop impl and its field
\* is an Option of a Handle of raw pointers, so nothing runs and the heap
\* is left as it is
IntoIter_drop(h, cursor) == h

\* a step of the IntoIter: the heap and the IntoIter afterwards
Owns(op, h, its) ==
    /\ nodes' = h
    /\ iters' = its
    /\ last' = [op |-> op, key |-> NULL, val |-> NULL, ret |-> None,
                ptr |-> None, before |-> None,
                live |-> Cardinality(DOMAIN h) - Cardinality(DOMAIN nodes),
                seq |-> IF 1 \in DOMAIN its THEN its[1].seq ELSE <<>>]
    /\ root' = Moved
    /\ length' = 0
    /\ log' = log

\* let mut it = map.into_iter()
IntoIterNew ==
    /\ Idle
    /\ Owns("into_iter", nodes,
            <<[handle |-> BTreeMap_into_iter(nodes, root), seq |-> <<>>,
               done |-> FALSE]>>)

\* it.next()
IntoIterNext ==
    /\ 1 \in DOMAIN iters
    /\ ~iters[1].done
    /\ Owns("into_iter_next", IntoIter_next(nodes, iters[1].handle).h,
            Iter_store(iters, 1, IntoIter_next(nodes, iters[1].handle)))

\* it.next() once more, after it returned None
IntoIterNextAgain ==
    /\ 1 \in DOMAIN iters
    /\ iters[1].done
    /\ last.op # "into_iter_next_again"
    /\ Owns("into_iter_next_again", IntoIter_next(nodes, iters[1].handle).h,
            Iter_store(iters, 1, IntoIter_next(nodes, iters[1].handle)))

\* it goes out of scope
IntoIterDrop ==
    /\ 1 \in DOMAIN iters
    /\ Owns("into_iter_drop", IntoIter_drop(nodes, iters[1].handle), <<>>)

NextOwned ==
    \/ \E k \in OwnedCallable : Idle /\ Insert(k, 10 * k)
    \/ IntoIterNew
    \/ IntoIterNext
    \/ IntoIterNextAgain
    \/ IntoIterDrop

SpecOwned == Init /\ [][NextOwned]_vars

------------------------------------------------------------------------------
(* What a caller observes                                                  *)

\* the keys probed: every key of the bands and one beyond each end
Probes == 0..(MaxKey + 1)

\* the pairs of the log in ascending key order, from key k on
RECURSIVE LogSeq(_, _)
LogSeq(l, k) ==
    IF k > MaxKey THEN <<>>
    ELSE (IF k \in DOMAIN l THEN <<<<k, l[k]>>>> ELSE <<>>) \o LogSeq(l, k + 1)

\* next() on the cursor until it returns None, at most `fuel` times: the pairs
\* yielded, the cursor left, and whether None was returned
RECURSIVE Iter_collect(_, _, _, _)
Iter_collect(h, cursor, acc, fuel) ==
    IF fuel = 0 THEN [seq |-> acc, handle |-> cursor, done |-> FALSE]
    ELSE LET n == Iter_next(h, cursor)
         IN  IF n.ret.some
             THEN Iter_collect(h, n.handle, Append(acc, n.ret.val), fuel - 1)
             ELSE [seq |-> acc, handle |-> n.handle, done |-> TRUE]

\* `for (k, v) in map.iter()`
Iterated == Iter_collect(nodes, BTreeMap_iter(nodes, root), <<>>, MaxKey + 2)

\* an InternalNode was allocated with the edges array, a LeafNode without
IsInternal(h, n) == "edges" \in DOMAIN h[n]

\* the nodes under n with their depth below the root, n at depth d
RECURSIVE Walk(_, _, _)
Walk(h, n, d) ==
    IF IsInternal(h, n)
    THEN {<<n, d>>} \cup UNION {Walk(h, h[n].edges[i], d + 1) : i \in 0..h[n].len}
    ELSE {<<n, d>>}

\* the keys stored in the subtree under node n
RECURSIVE SubtreeKeys(_, _)
SubtreeKeys(h, n) ==
    {h[n].keys[i] : i \in 0..(h[n].len - 1)}
    \cup (IF IsInternal(h, n)
          THEN UNION {SubtreeKeys(h, h[n].edges[i]) : i \in 0..h[n].len}
          ELSE {})

\* the keys, and the values, in slots 0..len-1 of node n, as a sequence
NodeKeys(h, n) == [i \in 1..h[n].len |-> h[n].keys[i - 1]]

NodeVals(h, n) == [i \in 1..h[n].len |-> h[n].vals[i - 1]]

\* the sequence with x inserted before its element of 0-based index idx
InsertAt(seq, idx, x) ==
    SubSeq(seq, 1, idx) \o <<x>> \o SubSeq(seq, idx + 1, Len(seq))

\* what self.handle.insert(self.key, value) of VacantEntry::insert returns
\* for the new key k
LeafTry(k) ==
    Leaf_insert(nodes, BTreeMap_entry(nodes, root, k).handle, k, 10 * k)

\* the leaf that a new key k goes to is full
FullLeaf(k) ==
    NodeRef_len(nodes, BTreeMap_entry(nodes, root, k).handle.node) = capacity

\* the leaf that a new key k goes to is full and so is its parent
FullParent(k) ==
    /\ FullLeaf(k)
    /\ ascend(nodes, BTreeMap_entry(nodes, root, k).handle.node).ok
    /\ NodeRef_len(nodes,
           ascend(nodes, BTreeMap_entry(nodes, root, k).handle.node).handle.node)
         = capacity

\* the edge of the parent at which the split of k's leaf is inserted
ParentEdge(k) == ascend(LeafTry(k).h, LeafTry(k).left).handle

\* what parent.insert(ins_k, ins_v, ins_edge) of VacantEntry::insert returns
\* after the leaf of the new key k was split
ParentTry(k) ==
    Internal_insert(LeafTry(k).h, ParentEdge(k),
                    LeafTry(k).k, LeafTry(k).v, LeafTry(k).right)

\* two heaps hold the same nodes with the same contents
SameHeap(a, b) ==
    /\ DOMAIN a = DOMAIN b
    /\ \A n \in DOMAIN a : a[n] = b[n]

\* the children in edges 0..len of the internal node n, as a sequence
NodeEdges(h, n) == [i \in 1..(h[n].len + 1) |-> h[n].edges[i - 1]]

\* what map.entry(k).insert(10 * k) makes of the map, for a new key k
FinalTry(k) ==
    VacantEntry_insert(nodes, root, length, BTreeMap_entry(nodes, root, k), 10 * k)

\* the leaf that a new key k goes to is full and is not the root
FullChild(k) ==
    /\ FullLeaf(k)
    /\ ascend(nodes, BTreeMap_entry(nodes, root, k).handle.node).ok

\* the parent of k's full leaf is full and is not the root
FullInner(k) ==
    /\ FullParent(k)
    /\ ascend(nodes, ParentEdge(k).node).ok

\* in the heap F the internal node `at.node` holds the pair (pk, pv) at key
\* index at.idx, with `left` the child before it and `right` the child after
\* it, and both children linked to these edges
PushedInto(F, at, left, pk, pv, right) ==
    /\ at.idx < NodeRef_len(F, at.node)
    /\ F[at.node.node].keys[at.idx] = pk
    /\ F[at.node.node].vals[at.idx] = pv
    /\ descend(F, at) = left
    /\ descend(F, Handle_new(at.node, at.idx + 1)) = right
    /\ ascend(F, left) = [ok |-> TRUE, handle |-> at]
    /\ ascend(F, right) = [ok |-> TRUE, handle |-> Handle_new(at.node, at.idx + 1)]

\* the edge of the grandparent at which the split of the parent of k's leaf
\* is inserted
GrandEdge(k) == ascend(ParentTry(k).h, ParentTry(k).left).handle

\* what the second parent.insert(ins_k, ins_v, ins_edge) of the loop of
\* VacantEntry::insert returns after the parent of k's leaf was split
GrandTry(k) ==
    Internal_insert(ParentTry(k).h, GrandEdge(k),
                    ParentTry(k).k, ParentTry(k).v, ParentTry(k).right)

\* the edge before which Handle<Internal, Edge>::insert puts a promoted
\* pair: `edge` itself if the node has room or edge.idx <= T, else the edge
\* idx - T - 1 of the new node `right` that the split of the node returned
Home(full, edge, right) ==
    IF ~full \/ edge.idx <= T THEN edge
    ELSE Handle_new(right, edge.idx - T - 1)

\* `node` and every node above it up to the root are full: an insertion into
\* `node` splits each of them in turn and the Err(root) arm of
\* VacantEntry::insert is reached
RECURSIVE PathFull(_, _)
PathFull(h, node) ==
    /\ NodeRef_len(h, node) = capacity
    /\ ascend(h, node).ok => PathFull(h, ascend(h, node).handle.node)

\* the insertion of the new key k splits the root
RootSplits(k) == PathFull(nodes, BTreeMap_entry(nodes, root, k).handle.node)

\* what the insert that splits the root returns when k is inserted
RootTry(k) ==
    IF root.height = 0 THEN LeafTry(k)
    ELSE IF root.height = 1 THEN ParentTry(k) ELSE GrandTry(k)

\* the node n, which a NodeRef of the given height designates, is a leaf
\* if the height is 0 and otherwise an internal node whose edges 0..len each
\* designate an allocated node, all different, that is again such a node
\* one level lower
RECURSIVE ChildrenLive(_, _, _)
ChildrenLive(h, n, height) ==
    IF height = 0 THEN ~IsInternal(h, n)
    ELSE /\ IsInternal(h, n)
         /\ \A i \in 0..h[n].len :
                /\ h[n].edges[i] \in DOMAIN h
                /\ \A j \in 0..h[n].len : h[n].edges[i] = h[n].edges[j] => i = j
                /\ ChildrenLive(h, h[n].edges[i], height - 1)

\* the nodes that the edges 0..len of node n designate
Children(h, n) ==
    IF IsInternal(h, n) THEN {h[n].edges[i] : i \in 0..h[n].len} ELSE {}

\* the child slots that designate node n: pairs of an internal node and an
\* edge index
Refs(h, n) ==
    {pi \in (DOMAIN h) \X (0..(2 * T - 1)) :
        /\ IsInternal(h, pi[1])
        /\ pi[2] <= h[pi[1]].len
        /\ h[pi[1]].edges[pi[2]] = n}

\* the nodes reached from the set S by descending at most `steps` times
RECURSIVE ReachIn(_, _, _)
ReachIn(h, S, steps) ==
    IF steps = 0 THEN S
    ELSE ReachIn(h, S \cup UNION {Children(h, n) \cap DOMAIN h : n \in S},
                 steps - 1)

\* the key that precedes the edge `handle` in key order: the key left of it
\* in its node or, at edge 0, the key that precedes the edge of the parent
RECURSIVE EdgePred(_, _)
EdgePred(h, handle) ==
    IF handle.idx > 0 THEN Some(h[handle.node.node].keys[handle.idx - 1])
    ELSE IF ascend(h, handle.node).ok
         THEN EdgePred(h, ascend(h, handle.node).handle)
         ELSE None

\* the key that follows the edge `handle` in key order
RECURSIVE EdgeSucc(_, _)
EdgeSucc(h, handle) ==
    IF handle.idx < NodeRef_len(h, handle.node)
    THEN Some(h[handle.node.node].keys[handle.idx])
    ELSE IF ascend(h, handle.node).ok
         THEN EdgeSucc(h, ascend(h, handle.node).handle)
         ELSE None

\* the number of nodes search_tree calls search_node on
RECURSIVE search_tree_visits(_, _, _)
search_tree_visits(h, node, key) ==
    IF search_node(h, node, key).found \/ node.height = 0 THEN 1
    ELSE 1 + search_tree_visits(h, descend(h, search_node(h, node, key).handle), key)

\* the number of descend calls of first_leaf_edge
RECURSIVE first_leaf_edge_descends(_, _)
first_leaf_edge_descends(h, node) ==
    IF node.height = 0 THEN 0
    ELSE 1 + first_leaf_edge_descends(h, descend(h, Handle_new(node, 0)))

\* Iter::next from the edge `handle`, reached after `up` ascents: the number
\* of ascend calls that returned Ok and of descend calls
RECURSIVE Iter_next_moves(_, _, _)
Iter_next_moves(h, handle, up) ==
    IF handle.idx < NodeRef_len(h, handle.node)
    THEN [ascends  |-> up,
          descends |-> IF up = 0 THEN 0
                       ELSE 1 + first_leaf_edge_descends(h,
                                    descend(h, Handle_new(handle.node, handle.idx + 1)))]
    ELSE IF ascend(h, handle.node).ok
         THEN Iter_next_moves(h, ascend(h, handle.node).handle, up + 1)
         ELSE [ascends |-> up, descends |-> 0]

\* the nodes of the tree, each with its depth
Tree == Walk(nodes, root.node, 0)

------------------------------------------------------------------------------
(* Claims                                                                  *)

\* C1: for every key stored so far, get returns Some of the value most
\* recently stored for it, whatever splits and root growth came later.
C1_GetReturnsLatest ==
    \A k \in DOMAIN log : BTreeMap_get(nodes, root, k) = Some(log[k])

\* C1 witness: a tree of height 2 (leaf splits, an internal split and two
\* root growths), in which a key was stored twice and lies in an internal node.
C1_Witness ==
    /\ root.height = 2
    /\ \E k \in HotKeys \cap DOMAIN log :
          /\ log[k] = 100 * k
          /\ search_tree(nodes, Root_as_ref(root), k).handle.node.height > 0
    /\ C1_GetReturnsLatest

\* C2: a fresh iter() yields every stored pair once, in ascending key order,
\* and then returns None.
C2_IterSorted ==
    /\ Iterated.done
    /\ Iterated.seq = LogSeq(log, 1)

\* C2 witness: the iteration of a tree of height 2 whose keys arrived at the
\* left end, the right end and the middle.
C2_Witness ==
    /\ root.height = 2
    /\ DOMAIN log \cap MidBand # {}
    /\ DOMAIN log \cap HighBand # {}
    /\ Len(Iterated.seq) = Cardinality(DOMAIN log)
    /\ Iterated.done

\* C3: len() is the number of distinct keys stored so far.
C3_LenCountsKeys == BTreeMap_len(length) = Cardinality(DOMAIN log)

\* C3 witness: an insert that replaced a value in a tree that has split up to
\* the root; the count is that of the keys, not of the calls.
C3_Witness ==
    /\ last.op = "insert"
    /\ last.before.some
    /\ root.height = 2
    /\ BTreeMap_len(length) = Cardinality(DOMAIN log)
    /\ BTreeMap_len(length) > 2 * capacity

\* C4: every node of the tree other than the root holds between T - 1 and
\* 2T - 1 keys, and the root between 0 and 2T - 1.
C4_Occupancy ==
    \A nd \in Tree :
        /\ nodes[nd[1]].len <= capacity
        /\ nd[1] # root.node => nodes[nd[1]].len >= T - 1

\* C5: every leaf is at the same depth below the root, the height the Root
\* records, and every node above that depth is an internal node.
C5_LeavesAtRootHeight ==
    \A nd \in Tree : IsInternal(nodes, nd[1]) <=> nd[2] < root.height

\* C5 witness: a tree of height 2 that grew at the left end, the right end
\* and in the middle, with a leaf two edges below the root.
C5_Witness ==
    /\ root.height = 2
    /\ DOMAIN log \cap MidBand # {}
    /\ DOMAIN log \cap HighBand # {}
    /\ \E nd \in Tree : ~IsInternal(nodes, nd[1]) /\ nd[2] = 2

\* C6: insert(k, v) returns None when k was absent and Some(old), the value
\* held for k just before the call, when it was present; afterwards k holds v.
C6_InsertReturnsOld ==
    last.op = "insert" =>
        /\ last.ret = last.before
        /\ BTreeMap_get(nodes, root, last.key) = Some(last.val)

\* C6 witness: an insert that replaced, by another value, the value of a key
\* held in an internal node of a tree of height 2.
C6_Witness ==
    /\ last.op = "insert"
    /\ last.before.some
    /\ last.ret.some
    /\ last.ret.val # last.val
    /\ root.height = 2
    /\ BTreeMap_get(nodes, root, last.key) = Some(last.val)

\* C7: a key that was never stored has get = None and contains_key = false,
\* and for every key contains_key(k) is get(k).is_some().
C7_AbsentKeys ==
    \A k \in Probes :
        /\ k \notin DOMAIN log =>
              /\ BTreeMap_get(nodes, root, k) = None
              /\ ~BTreeMap_contains_key(nodes, root, k)
        /\ BTreeMap_contains_key(nodes, root, k) = BTreeMap_get(nodes, root, k).some

\* C7 witness: a tree of height 2 and a key never stored that lies between
\* stored keys, and so is looked for inside the tree.
C7_Witness ==
    /\ root.height = 2
    /\ \E k \in MidBand \ DOMAIN log :
          /\ \E x \in DOMAIN log : x < k
          /\ \E y \in DOMAIN log : y > k
          /\ BTreeMap_get(nodes, root, k) = None
          /\ ~BTreeMap_contains_key(nodes, root, k)

\* C8: after entry(k).or_insert(v) the map holds what it held before, with
\* (k, v) added if k was absent: the same contents, len and iteration; and
\* the reference returned designates the value get(k) returns.
C8_OrInsertEquivalence ==
    last.op = "or_insert" =>
        /\ \A k \in Probes : BTreeMap_get(nodes, root, k) = Lookup(log, k)
        /\ BTreeMap_get(nodes, root, last.key) =
               IF last.before.some THEN last.before ELSE Some(last.val)
        /\ BTreeMap_len(length) = Cardinality(DOMAIN log)
        /\ Iterated.seq = LogSeq(log, 1)
        /\ last.ptr.some
        /\ Some(Deref(nodes, last.ptr.val)) = BTreeMap_get(nodes, root, last.key)

\* C8 witness: or_insert with a default other than the value held, on a key
\* present in a tree of height 2; the reference designates the value held.
C8_Witness ==
    /\ last.op = "or_insert"
    /\ last.before.some
    /\ last.before.val # last.val
    /\ root.height = 2
    /\ Deref(nodes, last.ptr.val) = last.before.val

\* C9: the reference VacantEntry::insert returns designates a slot of a leaf,
\* within its length, that holds the key and the value just stored.
C9_VacantInsertSlot ==
    (last.op = "or_insert" /\ ~last.before.some) =>
        /\ last.ptr.some
        /\ ~IsInternal(nodes, last.ptr.val.node)
        /\ last.ptr.val.idx < nodes[last.ptr.val.node].len
        /\ nodes[last.ptr.val.node].keys[last.ptr.val.idx] = last.key
        /\ nodes[last.ptr.val.node].vals[last.ptr.val.idx] = last.val

\* C9 witness: a new key of the middle block that went to the right sibling
\* of a split leaf, followed by a split of the parent and a growth of the
\* root (three nodes allocated).
C9_Witness ==
    /\ last.op = "or_insert"
    /\ ~last.before.some
    /\ last.key \in MidBand
    /\ last.live = 3
    /\ Deref(nodes, last.ptr.val) = last.val

\* C10: after clear() len is 0, is_empty holds, get is None for every key,
\* iter yields nothing, the root is an empty leaf of height 0 without parent,
\* and the map is in the state of a new map, so later calls act as on one.
C10_ClearIsNew ==
    last.op = "clear" =>
        /\ BTreeMap_len(length) = 0
        /\ BTreeMap_is_empty(length)
        /\ \A k \in Probes : BTreeMap_get(nodes, root, k) = None
        /\ Iterated.done /\ Iterated.seq = <<>>
        /\ root.height = 0
        /\ nodes[root.node] = LeafNode_new
        /\ nodes = BTreeMap_new.h /\ root = BTreeMap_new.root
        /\ length = BTreeMap_new.length

\* C10 witness: clear() on a tree of height 2 (more nodes than a root with
\* all its leaves), whose nodes were all released.
C10_Witness ==
    /\ last.op = "clear"
    /\ last.live < 0 - (capacity + 1)
    /\ BTreeMap_is_empty(length)
    /\ DOMAIN nodes = {root.node}

\* C11: an Iter starts at the smallest key and is independent of any other
\* Iter on the map: whatever the order of the next() calls, what each one
\* has yielded is an initial part of the ascending sequence of the stored
\* pairs, and all of it once next() has returned None.
C11_IndependentIters ==
    \A i \in DOMAIN iters :
        /\ Len(iters[i].seq) <= Len(LogSeq(log, 1))
        /\ iters[i].seq = SubSeq(LogSeq(log, 1), 1, Len(iters[i].seq))
        /\ iters[i].done => iters[i].seq = LogSeq(log, 1)
        /\ ~iters[i].done => iters[i].handle.some

\* C11 witness: two iterators on a tree with internal nodes, the first one
\* finished, the second one restarted after it and part of the way.
C11_Witness ==
    /\ DOMAIN iters = IterIds
    /\ root.height >= 1
    /\ iters[1].done
    /\ Len(iters[1].seq) = BTreeMap_len(length)
    /\ ~iters[2].done
    /\ Len(iters[2].seq) > capacity
    /\ Len(iters[2].seq) < BTreeMap_len(length)

\* C12: get_mut(k) returns None when k is absent and a reference to the value
\* stored for k when it is present; a write through the reference changes
\* that one value slot and nothing else: get(k) returns the value written,
\* every other key, value, link and count, the root and len stay as they were.
C12_GetMutFrame ==
    [][last'.op = "get_mut" =>
          /\ last'.ptr.some <=> last'.key \in DOMAIN log
          /\ last'.ptr.some =>
                /\ Deref(nodes, last'.ptr.val) = log[last'.key]
                /\ BTreeMap_get(nodes', root', last'.key) = Some(last'.val)
                /\ [nodes' EXCEPT ![last'.ptr.val.node].vals[last'.ptr.val.idx] =
                        log[last'.key]] = nodes
          /\ ~last'.ptr.some => nodes' = nodes
          /\ root' = root
          /\ BTreeMap_len(length') = BTreeMap_len(length)
          /\ \A k \in Probes \ {last'.key} :
                BTreeMap_get(nodes', root', k) = BTreeMap_get(nodes, root, k)
    ]_vars

\* C12 witness: a write through get_mut of a value other than the one held,
\* to a key that lies in an internal node of a tree of height 2.
C12_Witness ==
    /\ last.op = "get_mut"
    /\ last.ptr.some
    /\ last.before.some
    /\ last.before.val # last.val
    /\ root.height = 2
    /\ IsInternal(nodes, last.ptr.val.node)
    /\ BTreeMap_get(nodes, root, last.key) = Some(last.val)

\* the calls that take the map by shared reference, and entry(k) unused
ReadOps == {"get", "contains_key", "len", "is_empty", "entry", "iter", "next"}

\* C13: get, contains_key, len, is_empty, iter and every next() on it, and an
\* entry(k) dropped unused leave the map as it was: the same nodes with their
\* keys, values, edges, parent links and counts, the same root and len.
C13_ReadsChangeNothing ==
    [][(last'.op \in ReadOps \/ iters' # iters) =>
          /\ nodes' = nodes
          /\ root' = root
          /\ length' = length
    ]_vars

\* C13 witness: a Vacant entry dropped unused on a tree of height 2.
C13_Witness ==
    /\ last.op = "entry"
    /\ last.ret = Some(FALSE)
    /\ root.height = 2
    /\ BTreeMap_len(length) = Cardinality(DOMAIN log)
    /\ BTreeMap_get(nodes, root, last.key) = None

\* C14: a loop over iter_mut() and a loop over the map by value yield what
\* iter() yields, the same pairs in the same ascending order, each once; a
\* value written through a reference that iter_mut yielded is the value get
\* returns for that key afterwards, and get is as before for every other key.
C14_IterMutIntoIter ==
    [][/\ last'.op \in {"iter_mut", "into_iter"} => last'.seq = Iterated.seq
       /\ last'.op = "iter_mut" =>
             /\ last'.key \in DOMAIN log =>
                   BTreeMap_get(nodes', root', last'.key) = Some(last'.val)
             /\ \A k \in Probes \ {last'.key} :
                   BTreeMap_get(nodes', root', k) = BTreeMap_get(nodes, root, k)
    ]_vars

\* C14 witness: a loop over iter_mut() on a tree of height 2 that wrote a
\* value other than the one yielded, to a key held in an internal node.
C14_Witness ==
    /\ last.op = "iter_mut"
    /\ root.height = 2
    /\ Len(last.seq) = BTreeMap_len(length)
    /\ last.before.some
    /\ last.before.val # last.val
    /\ <<last.key, last.before.val>> \in {last.seq[i] : i \in DOMAIN last.seq}
    /\ BTreeMap_get(nodes, root, last.key) = Some(last.val)

\* C15: is_empty() is true exactly when len() is 0, and a new map has len 0
\* and, as its root, a single empty leaf of height 0 whose parent is null.
C15_EmptyAndNew ==
    /\ BTreeMap_is_empty(length) <=> BTreeMap_len(length) = 0
    /\ last.op = "new" =>
          /\ BTreeMap_len(length) = 0
          /\ root.height = 0
          /\ DOMAIN nodes = {root.node}
          /\ ~IsInternal(nodes, root.node)
          /\ nodes[root.node].len = 0
          /\ nodes[root.node].parent = NULL

\* C15 witness: the map as BTreeMap::new returns it.
C15_Witness ==
    /\ last.op = "new"
    /\ BTreeMap_is_empty(length)
    /\ BTreeMap_len(length) = 0
    /\ nodes[root.node].parent = NULL
    /\ log = <<>>

\* C16: for every internal node and every key index i of it, the keys in
\* the subtree under child i are all less than key i and the keys in the
\* subtree under child i + 1 are all greater.
C16_Separators ==
    \A nd \in Tree :
        IsInternal(nodes, nd[1]) =>
            \A i \in 0..(nodes[nd[1]].len - 1) :
                /\ \A x \in SubtreeKeys(nodes, nodes[nd[1]].edges[i]) :
                      x < nodes[nd[1]].keys[i]
                /\ \A y \in SubtreeKeys(nodes, nodes[nd[1]].edges[i + 1]) :
                      y > nodes[nd[1]].keys[i]

\* C16 witness: a tree of height 2 whose last key came into the middle and
\* split a leaf, its parent and the root; the key at the root separates the
\* two internal nodes under it.
C16_Witness ==
    /\ root.height = 2
    /\ last.key \in MidBand
    /\ last.live = 3
    /\ nodes[root.node].len = 1
    /\ Max(SubtreeKeys(nodes, nodes[root.node].edges[0])) < nodes[root.node].keys[0]
    /\ Min(SubtreeKeys(nodes, nodes[root.node].edges[1])) > nodes[root.node].keys[0]

\* C17: in every node, leaf or internal, the keys in slots 0..len-1 are
\* strictly ascending.
C17_NodeKeysAscending ==
    \A nd \in Tree :
        \A i \in 0..(nodes[nd[1]].len - 2) :
            nodes[nd[1]].keys[i] < nodes[nd[1]].keys[i + 1]

\* C17 witness: a tree of height 2 with a full leaf and an internal node of
\* more than T keys, built by insertions at the front, the back and the
\* middle of nodes.
C17_Witness ==
    /\ root.height = 2
    /\ DOMAIN log \cap MidBand # {}
    /\ \E nd \in Tree : ~IsInternal(nodes, nd[1]) /\ nodes[nd[1]].len = capacity
    /\ \E nd \in Tree : IsInternal(nodes, nd[1]) /\ nodes[nd[1]].len > T
    /\ \A nd \in Tree : nodes[nd[1]].len > 1 =>
                            nodes[nd[1]].keys[0] < nodes[nd[1]].keys[1]

\* C18: the root's parent pointer is null, and every other node's parent
\* pointer addresses the internal node that holds it as a child, with the
\* stored edge index the index of that edge: ascend from the child and then
\* descend returns the child.
C18_ParentLinks ==
    /\ nodes[root.node].parent = NULL
    /\ \A nd \in Tree :
          IsInternal(nodes, nd[1]) =>
              \A i \in 0..nodes[nd[1]].len :
                  /\ nodes[nodes[nd[1]].edges[i]].parent = nd[1]
                  /\ nodes[nodes[nd[1]].edges[i]].parent_idx = i
                  /\ ascend(nodes, [height |-> root.height - nd[2] - 1,
                                    node |-> nodes[nd[1]].edges[i]]).ok
                  /\ descend(nodes,
                             ascend(nodes, [height |-> root.height - nd[2] - 1,
                                            node |-> nodes[nd[1]].edges[i]]).handle)
                         = [height |-> root.height - nd[2] - 1,
                            node |-> nodes[nd[1]].edges[i]]

\* C18 witness: a key of the middle block has just split a leaf, its full
\* parent (children moved to the new right node, children shifted in the
\* left one) and grown the root; the children under the new right node
\* point to it.
C18_Witness ==
    /\ last.key \in MidBand
    /\ last.live = 3
    /\ root.height = 2
    /\ nodes[root.node].parent = NULL
    /\ \A i \in 0..nodes[nodes[root.node].edges[1]].len :
          nodes[nodes[nodes[root.node].edges[1]].edges[i]].parent =
              nodes[root.node].edges[1]

\* a full node with entries `old` received x at index idx: L is what the
\* left node holds afterwards, p what was promoted, R what the right holds
SplitPlaced(old, idx, x, L, p, R) ==
    /\ p = old[T + 1]
    /\ idx <= T => /\ L = InsertAt(SubSeq(old, 1, T), idx, x)
                   /\ R = SubSeq(old, T + 2, Len(old))
    /\ idx > T  => /\ L = SubSeq(old, 1, T)
                   /\ R = InsertAt(SubSeq(old, T + 2, Len(old)), idx - T - 1, x)
    /\ L \o <<p>> \o R = InsertAt(old, idx, x)

\* C19: an insertion at index idx into a full node promotes the pair at
\* index T, keeps indexes [0, T) in the node, moves the entries after T to a
\* newly allocated right sibling and places the new entry in the left node at
\* idx if idx <= T, else in the right node at idx - T - 1; left keys,
\* promoted key, right keys are the old keys with the new key in its sorted
\* place.  Stated for the insertion of each key a caller may store next, at
\* the leaf and at the parent that receives the promoted pair.
C19_SplitPlacement ==
    \A k \in Fresh(DOMAIN log) :
        /\ FullLeaf(k) =>
              /\ ~LeafTry(k).fit
              /\ LeafTry(k).left = BTreeMap_entry(nodes, root, k).handle.node
              /\ LeafTry(k).right.node \notin DOMAIN nodes
              /\ SplitPlaced(NodeKeys(nodes, LeafTry(k).left.node),
                             BTreeMap_entry(nodes, root, k).handle.idx, k,
                             NodeKeys(LeafTry(k).h, LeafTry(k).left.node),
                             LeafTry(k).k,
                             NodeKeys(LeafTry(k).h, LeafTry(k).right.node))
              /\ SplitPlaced(NodeVals(nodes, LeafTry(k).left.node),
                             BTreeMap_entry(nodes, root, k).handle.idx, 10 * k,
                             NodeVals(LeafTry(k).h, LeafTry(k).left.node),
                             LeafTry(k).v,
                             NodeVals(LeafTry(k).h, LeafTry(k).right.node))
              /\ \A i \in 1..T : NodeKeys(LeafTry(k).h, LeafTry(k).left.node)[i]
                                     < LeafTry(k).k
              /\ \A i \in DOMAIN NodeKeys(LeafTry(k).h, LeafTry(k).right.node) :
                     NodeKeys(LeafTry(k).h, LeafTry(k).right.node)[i] > LeafTry(k).k
        /\ FullParent(k) =>
              /\ ~ParentTry(k).fit
              /\ ParentTry(k).left = ParentEdge(k).node
              /\ ParentTry(k).right.node \notin DOMAIN LeafTry(k).h
              /\ SplitPlaced(NodeKeys(LeafTry(k).h, ParentEdge(k).node.node),
                             ParentEdge(k).idx, LeafTry(k).k,
                             NodeKeys(ParentTry(k).h, ParentTry(k).left.node),
                             ParentTry(k).k,
                             NodeKeys(ParentTry(k).h, ParentTry(k).right.node))

\* C19 witness: the next key of the middle block goes to a full leaf at an
\* index above T, and the promoted pair to the full parent at index T.
C19_Witness ==
    \E k \in Fresh(DOMAIN log) \cap MidBand :
        /\ FullParent(k)
        /\ BTreeMap_entry(nodes, root, k).handle.idx > T
        /\ ParentEdge(k).idx = T
        /\ ~LeafTry(k).fit
        /\ ~ParentTry(k).fit
        /\ Len(NodeKeys(ParentTry(k).h, ParentTry(k).left.node)) = T + 1

\* the key counts l and r of the two halves of a full node that received
\* an entry at index idx
SplitCounts(idx, l, r) ==
    IF idx <= T THEN l = T + 1 /\ r = T - 2
                ELSE l = T /\ r = T - 1

SplitHigh ==
    \E k \in Fresh(DOMAIN log) \cap HighBand :
        /\ FullParent(k)
        /\ BTreeMap_entry(nodes, root, k).handle.idx > T
        /\ ParentEdge(k).idx > T
        /\ NodeRef_len(ParentTry(k).h, ParentTry(k).left) = T
        /\ NodeRef_len(ParentTry(k).h, ParentTry(k).right) = T - 1

\* C21: when a node that is not the root, reached through edge i of its
\* parent, splits, the promoted pair is stored at key index i of the parent
\* (if the parent is full and splits too, in the half that holds the split
\* node: at i of the parent when i <= T, at i - T - 1 of its new sibling
\* otherwise), the split node is the child before the pair and the new right
\* sibling the child after it; if the parent had room nothing else changes,
\* and if it split, the same holds one level up for its own promoted triple,
\* until a node has room or the root is reached.  Stated for the insertion
\* of each key a caller may store next.
C21_PromotedIntoParent ==
    \A k \in DeepCallable :
        /\ FullChild(k) =>
              /\ PushedInto(FinalTry(k).h,
                            Home(FullParent(k), ParentEdge(k), ParentTry(k).right),
                            LeafTry(k).left, LeafTry(k).k, LeafTry(k).v,
                            LeafTry(k).right)
              /\ ~FullParent(k) =>
                    /\ ParentTry(k).fit
                    /\ SameHeap(FinalTry(k).h, ParentTry(k).h)
                    /\ FinalTry(k).root = root
                    /\ NodeKeys(FinalTry(k).h, ParentEdge(k).node.node)
                         = InsertAt(NodeKeys(nodes, ParentEdge(k).node.node),
                                    ParentEdge(k).idx, LeafTry(k).k)
                    /\ NodeEdges(FinalTry(k).h, ParentEdge(k).node.node)
                         = InsertAt(NodeEdges(nodes, ParentEdge(k).node.node),
                                    ParentEdge(k).idx + 1, LeafTry(k).right.node)
        /\ FullParent(k) => ~ParentTry(k).fit
        /\ FullParent(k) /\ ~FullInner(k) => FinalTry(k).root # root
        /\ FullInner(k) =>
              /\ PushedInto(FinalTry(k).h,
                            Home(NodeRef_len(nodes, GrandEdge(k).node) = capacity,
                                 GrandEdge(k), GrandTry(k).right),
                            ParentTry(k).left, ParentTry(k).k, ParentTry(k).v,
                            ParentTry(k).right)
              /\ NodeRef_len(nodes, GrandEdge(k).node) < capacity =>
                    /\ GrandTry(k).fit
                    /\ SameHeap(FinalTry(k).h, GrandTry(k).h)
                    /\ FinalTry(k).root = root
                    /\ NodeKeys(FinalTry(k).h, GrandEdge(k).node.node)
                         = InsertAt(NodeKeys(nodes, GrandEdge(k).node.node),
                                    GrandEdge(k).idx, ParentTry(k).k)
                    /\ NodeEdges(FinalTry(k).h, GrandEdge(k).node.node)
                         = InsertAt(NodeEdges(nodes, GrandEdge(k).node.node),
                                    GrandEdge(k).idx + 1, ParentTry(k).right.node)

\* C21 witness: the next key of the ascending run splits the last leaf and
\* its full parent, which is not the root: the leaf's pair goes to the new
\* sibling of the parent, and the parent's pair to the root, which has room.
C21_Witness ==
    \E k \in DeepCallable :
        /\ FullInner(k)
        /\ ParentEdge(k).idx > T
        /\ GrandTry(k).fit
        /\ ascend(FinalTry(k).h, LeafTry(k).left).handle.node = ParentTry(k).right
        /\ ascend(FinalTry(k).h, ParentTry(k).right).handle
             = Handle_new(Root_as_ref(root), GrandEdge(k).idx + 1)

\* C22: an insertion (insert or or_insert) raises the height by one if it
\* stores a new key and every node from the key's leaf up to the root is
\* full, and leaves the height and the root node as they are otherwise; in
\* the first case the new root is a newly allocated internal node with a
\* null parent and exactly one key, the pair promoted by the split of the old
\* root, with the old root at edge 0 and the new right sibling of the old
\* root at edge 1, both linked to these edges of the new root.
C22_HeightGrowth ==
    [][last'.op \in {"insert", "or_insert"} =>
          IF last'.key \notin DOMAIN log /\ RootSplits(last'.key)
          THEN /\ root'.height = root.height + 1
               /\ root'.node \notin DOMAIN nodes
               /\ IsInternal(nodes', root'.node)
               /\ nodes'[root'.node].parent = NULL
               /\ NodeRef_len(nodes', Root_as_ref(root')) = 1
               /\ RootTry(last'.key).left = Root_as_ref(root)
               /\ RootTry(last'.key).right.node \notin DOMAIN nodes
               /\ RootTry(last'.key).k = nodes[root.node].keys[T]
               /\ PushedInto(nodes', Handle_new(Root_as_ref(root'), 0),
                             Root_as_ref(root), RootTry(last'.key).k,
                             RootTry(last'.key).v, RootTry(last'.key).right)
          ELSE root' = root]_vars

\* C22 witness: an insert has just split a full leaf and the full root of
\* height 1 above it; the root has height 2, one key and the old root as its
\* first child.
C22_Witness ==
    /\ last.op = "insert"
    /\ last.live = 3
    /\ root.height = 2
    /\ NodeRef_len(nodes, Root_as_ref(root)) = 1
    /\ IsInternal(nodes, nodes[root.node].edges[0])
    /\ nodes[nodes[root.node].edges[1]].parent = root.node

\* C23: between operations every internal node with k keys has exactly
\* k + 1 children, in edges 0..k: each is an allocated node, no two are the
\* same, and each is one level lower (an internal node again above height
\* 1, a leaf at height 1), down from the root at the height the map records.
C23_ChildCount ==
    /\ root.node \in DOMAIN nodes
    /\ ChildrenLive(nodes, root.node, root.height)

\* C23 witness: a tree of height 2 whose root has three children, one of
\* them a full internal node: 2T - 1 keys and 2T children.
C23_Witness ==
    /\ root.height = 2
    /\ NodeRef_len(nodes, Root_as_ref(root)) = 2
    /\ \E n \in DOMAIN nodes :
          /\ IsInternal(nodes, n)
          /\ nodes[n].parent = root.node
          /\ nodes[n].len = capacity
          /\ Cardinality({nodes[n].edges[i] : i \in 0..capacity}) = 2 * T

\* C24: the allocated nodes form a tree under the root: no child slot
\* designates the root, every other node is designated by exactly one child
\* slot of one internal node (so no child is shared by two nodes, such as
\* the two halves of a split, and no node is reached by two paths), and
\* every node is reached from the root in at most `height` descents (so the
\* child references have no cycle).
C24_TreeShape ==
    /\ root.node \in DOMAIN nodes
    /\ Refs(nodes, root.node) = {}
    /\ \A n \in DOMAIN nodes \ {root.node} : Cardinality(Refs(nodes, n)) = 1
    /\ ReachIn(nodes, {root.node}, root.height) = DOMAIN nodes

\* C24 witness: a root of height 2 over the two halves of an internal node
\* that was split through an edge above T: T keys on the left, T - 1 on the
\* right, and 2T + 1 leaves under them.
C24_Witness ==
    /\ root.height = 2
    /\ NodeRef_len(nodes, Root_as_ref(root)) = 1
    /\ nodes[nodes[root.node].edges[0]].len = T
    /\ nodes[nodes[root.node].edges[1]].len = T - 1
    /\ Cardinality(DOMAIN nodes) = 2 * T + 4

\* C25: for a stored key search_tree returns Found with a handle on the
\* node that holds the key, at the level of that node (a leaf or an internal
\* node), at the index of the key; for a key that is not stored it returns
\* GoDown with an edge handle on a leaf, at an index within 0..len, such that
\* the key preceding that edge in key order is the largest stored key below
\* the query and the key following it the smallest stored key above it.
C25_SearchTree ==
    LET tree   == Tree
        stored == DOMAIN log
    IN  \A q \in DeepProbes :
          LET r == search_tree(nodes, Root_as_ref(root), q)
          IN  IF q \in stored
              THEN /\ r.found
                   /\ <<r.handle.node.node, root.height - r.handle.node.height>> \in tree
                   /\ r.handle.idx < NodeRef_len(nodes, r.handle.node)
                   /\ nodes[r.handle.node.node].keys[r.handle.idx] = q
                   /\ IsInternal(nodes, r.handle.node.node) = (r.handle.node.height > 0)
              ELSE /\ ~r.found
                   /\ r.handle.node.height = 0
                   /\ <<r.handle.node.node, root.height>> \in tree
                   /\ ~IsInternal(nodes, r.handle.node.node)
                   /\ r.handle.idx \in 0..NodeRef_len(nodes, r.handle.node)
                   /\ LET p == EdgePred(nodes, r.handle)
                      IN  IF \E x \in stored : x < q
                          THEN /\ p.some
                               /\ p.val \in stored
                               /\ p.val < q
                               /\ \A x \in stored : x < q => x <= p.val
                          ELSE p = None
                   /\ LET n == EdgeSucc(nodes, r.handle)
                      IN  IF \E x \in stored : x > q
                          THEN /\ n.some
                               /\ n.val \in stored
                               /\ n.val > q
                               /\ \A x \in stored : x > q => x >= n.val
                          ELSE n = None

\* C25 witness: in a tree of height 2 one stored key is found in the root
\* and one in a child of the root, and a key that is not stored leads to
\* the first edge of a leaf that is not the leftmost.
C25_Witness ==
    /\ root.height = 2
    /\ \E q \in DOMAIN log :
          search_tree(nodes, Root_as_ref(root), q).handle.node = Root_as_ref(root)
    /\ \E q \in DOMAIN log :
          /\ search_tree(nodes, Root_as_ref(root), q).found
          /\ search_tree(nodes, Root_as_ref(root), q).handle.node.height = 1
    /\ \E q \in DeepProbes \ DOMAIN log :
          /\ ~search_tree(nodes, Root_as_ref(root), q).found
          /\ search_tree(nodes, Root_as_ref(root), q).handle.idx = 0
          /\ EdgePred(nodes, search_tree(nodes, Root_as_ref(root), q).handle).some

\* C26: on a node whose keys are strictly ascending, search_node with the
\* query q returns Found with the index i of the key equal to q if there is
\* one, and otherwise GoDown with i the number of keys strictly below q (the
\* key count if q is above every key, 0 on an empty node); in both cases
\* the handle is on the node searched.
C26_SearchNode ==
    (/\ last.op = "search_node"
     /\ \A i \in 1..(nodes[root.node].len - 1) :
            nodes[root.node].keys[i - 1] < nodes[root.node].keys[i])
    => /\ last.ret.val.handle.node = Root_as_ref(root)
       /\ last.ret.val.handle.idx
            = Cardinality({i \in 0..(nodes[root.node].len - 1) :
                              nodes[root.node].keys[i] < last.key})
       /\ last.ret.val.found
            = (\E i \in 0..(nodes[root.node].len - 1) :
                  nodes[root.node].keys[i] = last.key)
       /\ last.ret.val.found
            => nodes[root.node].keys[last.ret.val.handle.idx] = last.key

\* C26 witness: a node of at least three keys was searched for a key it
\* does not hold that lies between two of its keys.
C26_Witness ==
    /\ last.op = "search_node"
    /\ nodes[root.node].len >= 3
    /\ ~last.ret.val.found
    /\ last.ret.val.handle.idx \in 1..(nodes[root.node].len - 1)
    /\ nodes[root.node].keys[last.ret.val.handle.idx - 1] < last.key
    /\ nodes[root.node].keys[last.ret.val.handle.idx] > last.key

\* C27: between calls of next() the cursor of an Iter is empty or an edge
\* handle on a leaf of the tree, with an index from 0 to the key count of
\* that leaf; before the first next() it is edge 0 of the leaf that holds
\* the smallest key (of the root on an empty map); and when the pair yielded
\* last is stored in an internal node, at index j, it is edge 0 of the
\* leftmost leaf under edge j + 1 of that node, the leaf that starts with
\* the next larger key.
C27_CursorOnLeaf ==
    \A i \in DOMAIN iters :
        LET cursor == iters[i].handle
            seq    == iters[i].seq
        IN  /\ cursor.some =>
                  /\ cursor.val.node.height = 0
                  /\ <<cursor.val.node.node, root.height>> \in Tree
                  /\ ~IsInternal(nodes, cursor.val.node.node)
                  /\ cursor.val.idx \in 0..NodeRef_len(nodes, cursor.val.node)
            /\ (seq = <<>> /\ ~iters[i].done) =>
                  /\ cursor.some
                  /\ cursor.val.idx = 0
                  /\ EdgePred(nodes, cursor.val) = None
                  /\ log = <<>> => cursor.val.node = Root_as_ref(root)
            /\ seq # <<>> =>
                  LET kv == search_tree(nodes, Root_as_ref(root), seq[Len(seq)][1]).handle
                  IN  kv.node.height > 0 =>
                        /\ cursor = Some(first_leaf_edge(nodes,
                                        descend(nodes, Handle_new(kv.node, kv.idx + 1))))
                        /\ cursor.val.idx = 0
                        /\ EdgePred(nodes, cursor.val) = Some(seq[Len(seq)][1])
                        /\ cursor.val.node.node
                             \in ReachIn(nodes, {nodes[kv.node.node].edges[kv.idx + 1]},
                                         kv.node.height - 1)

\* C27 witness: on a tree of height 2 an Iter has just yielded the pair
\* stored in the root, and its cursor is edge 0 of a leaf.
C27_Witness ==
    /\ root.node # NULL
    /\ root.height = 2
    /\ \E i \in DOMAIN iters :
          /\ iters[i].seq # <<>>
          /\ iters[i].handle.some
          /\ iters[i].handle.val.idx = 0
          /\ search_tree(nodes, Root_as_ref(root),
                         iters[i].seq[Len(iters[i].seq)][1]).handle.node.height = 2

\* C28: once next() has returned None the cursor of the Iter is empty and
\* a further next() returns None and leaves the cursor empty; a step that is
\* not a new iter() leaves an Iter that has ended as it was, with no pair
\* added to what it yielded; and on an empty map the first next() returns
\* None.
C28_IterEnds ==
    [][\A i \in DOMAIN iters' :
          /\ iters'[i].done =>
                /\ ~iters'[i].handle.some
                /\ ~Iter_next(nodes', iters'[i].handle).ret.some
                /\ ~Iter_next(nodes', iters'[i].handle).handle.some
          /\ (i \in DOMAIN iters /\ iters[i].done /\ last'.op # "iter") =>
                iters'[i] = iters[i]
          /\ (i \in DOMAIN iters /\ log = <<>> /\ last'.op = "next"
                /\ iters'[i] # iters[i]) =>
                /\ iters'[i].done
                /\ iters'[i].seq = <<>>
    ]_vars

\* C28 witness: next() was called again on an Iter that had yielded every
\* pair of a tree with internal nodes and then None.
C28_Witness ==
    /\ last.op = "next_again"
    /\ root.height >= 1
    /\ \E i \in DOMAIN iters :
          /\ iters[i].done
          /\ ~iters[i].handle.some
          /\ Len(iters[i].seq) = BTreeMap_len(length)

\* C29: insert(k, v) of a key that is present, in a leaf or in an internal
\* node, writes v to the value slot of k and changes nothing else: the same
\* nodes are allocated, every node other than the one that holds k is as it
\* was, that node differs in the one value only (same keys, other values,
\* edges, parent link and key count), and the root, the height and len are
\* the same.
C29_OverwriteFrame ==
    [][(last'.op = "insert" /\ last'.key \in DOMAIN log) =>
          LET kv == search_tree(nodes, Root_as_ref(root), last'.key).handle
          IN  /\ nodes[kv.node.node].keys[kv.idx] = last'.key
              /\ root' = root
              /\ length' = length
              /\ DOMAIN nodes' = DOMAIN nodes
              /\ \A n \in DOMAIN nodes :
                    nodes'[n] = IF n = kv.node.node
                                THEN [nodes[n] EXCEPT !.vals[kv.idx] = last'.val]
                                ELSE nodes[n]
    ]_vars

\* C29 witness: an insert has just replaced the value of a key that is
\* stored in an internal node of a tree of height 2, with a different value,
\* and no node was allocated.
C29_Witness ==
    /\ last.op = "insert"
    /\ last.before.some
    /\ last.before.val # last.val
    /\ last.live = 0
    /\ root.height = 2
    /\ IsInternal(nodes, search_tree(nodes, Root_as_ref(root), last.key).handle.node.node)
    /\ Deref(nodes, [node |-> search_tree(nodes, Root_as_ref(root), last.key).handle.node.node,
                     idx  |-> search_tree(nodes, Root_as_ref(root), last.key).handle.idx])
         = last.val

\* C30: an insertion (insert or or_insert) of a new key whose leaf holds
\* fewer than 2T - 1 keys puts the key and the value at the index the search
\* returned, with the entries from that index on moved up by one slot and
\* the entries before it in place; no node is allocated, every other node is
\* as it was, and the root, the height and the parent link of the leaf are
\* the same.
C30_InsertFits ==
    [][(/\ last'.op \in {"insert", "or_insert"}
        /\ last'.key \notin DOMAIN log
        /\ ~FullLeaf(last'.key)) =>
          LET edge == BTreeMap_entry(nodes, root, last'.key).handle
              leaf == edge.node.node
          IN  /\ edge.node.height = 0
              /\ DOMAIN nodes' = DOMAIN nodes
              /\ root' = root
              /\ length' = length + 1
              /\ \A n \in DOMAIN nodes \ {leaf} : nodes'[n] = nodes[n]
              /\ nodes'[leaf].len = nodes[leaf].len + 1
              /\ nodes'[leaf].parent = nodes[leaf].parent
              /\ nodes'[leaf].parent_idx = nodes[leaf].parent_idx
              /\ NodeKeys(nodes', leaf)
                   = InsertAt(NodeKeys(nodes, leaf), edge.idx, last'.key)
              /\ NodeVals(nodes', leaf)
                   = InsertAt(NodeVals(nodes, leaf), edge.idx, last'.val)
              /\ \A i \in 0..(nodes[leaf].len - 1) :
                    /\ i < edge.idx => nodes'[leaf].keys[i] = nodes[leaf].keys[i]
                    /\ i >= edge.idx => /\ nodes'[leaf].keys[i + 1] = nodes[leaf].keys[i]
                                        /\ nodes'[leaf].vals[i + 1] = nodes[leaf].vals[i]
    ]_vars

\* C30 witness: or_insert has just stored a new key of the middle block
\* inside a leaf of a tree of height 2, between entries already there, and
\* no node was allocated.
C30_Witness ==
    /\ last.op = "or_insert"
    /\ last.key \in MidBand
    /\ ~last.before.some
    /\ last.live = 0
    /\ root.height = 2
    /\ last.ptr.some
    /\ last.ptr.val.idx \in 1..(nodes[last.ptr.val.node].len - 2)
    /\ nodes[last.ptr.val.node].keys[last.ptr.val.idx] = last.key

\* C31: the calls are bounded by the height of the tree.  In every state:
\* a search for any key calls search_node on at most height + 1 nodes; the
\* insertion of any key a caller may store next allocates at most one node
\* per level (one split each) and one more for a new root, and raises the
\* height by at most one; and next() from any edge of any leaf moves up at
\* most `height` times and then down at most `height` times.
C31_BoundedByHeight ==
    /\ \A q \in DeepProbes :
          search_tree_visits(nodes, Root_as_ref(root), q) <= root.height + 1
    /\ \A k \in DeepCallable :
          /\ Cardinality(DOMAIN FinalTry(k).h) - Cardinality(DOMAIN nodes)
               <= root.height + 2
          /\ FinalTry(k).root.height \in {root.height, root.height + 1}
    /\ \A n \in DOMAIN nodes : ~IsInternal(nodes, n) =>
          \A i \in 0..nodes[n].len :
              LET m == Iter_next_moves(nodes,
                           Handle_new([node |-> n, height |-> 0], i), 0)
              IN  /\ m.ascends <= root.height
                  /\ m.descends <= root.height
                  /\ m.descends \in {0, m.ascends}

\* C31 witness: on a tree of height 2 a search visits 3 nodes, a next()
\* climbs from the end of a leaf to the root and descends to a leaf again,
\* and the next key splits its leaf and the parent of the leaf (2 nodes).
C31_Witness ==
    /\ root.height = 2
    /\ \E q \in DeepProbes :
          search_tree_visits(nodes, Root_as_ref(root), q) = 3
    /\ \E n \in DOMAIN nodes :
          /\ ~IsInternal(nodes, n)
          /\ Iter_next_moves(nodes, Handle_new([node |-> n, height |-> 0],
                                                 nodes[n].len), 0)
               = [ascends |-> 2, descends |-> 2]
    /\ \E k \in DeepCallable :
          /\ FullInner(k)
          /\ Cardinality(DOMAIN FinalTry(k).h) = Cardinality(DOMAIN nodes) + 2

\* the nodes that split when a key is inserted at a leaf `node`: the leaf if
\* it is full, then its parent if that is full too, and so on up to the
\* first node with room or to the root
RECURSIVE SplitsFrom(_, _)
SplitsFrom(h, node) ==
    IF NodeRef_len(h, node) < capacity THEN 0
    ELSE 1 + (IF ascend(h, node).ok THEN SplitsFrom(h, ascend(h, node).handle.node)
              ELSE 0)

\* the node n, new in the heap h, hangs to the right of a node that the heap
\* `old` already held, under the same parent and of the same kind
RightSiblingOf(old, h, n) ==
    /\ h[n].parent # NULL
    /\ h[n].parent_idx >= 1
    /\ h[h[n].parent].edges[h[n].parent_idx - 1] \in DOMAIN old
    /\ IsInternal(h, n) = IsInternal(h, h[h[n].parent].edges[h[n].parent_idx - 1])

\* C32: an insert of a new key that triggers s splits allocates exactly s
\* nodes, and one more exactly when the root itself split; every allocated
\* node is the right sibling of a node that was there before or the new
\* internal root; an insert of a stored key, a get, a get_mut, an entry and
\* every step of an iteration by reference allocate nothing, and none of
\* them deallocates a node.
C32_AllocatedBySplits ==
    [][last'.op \notin {"into_iter", "clear"} =>
        LET new == (DOMAIN nodes') \ (DOMAIN nodes)
            e   == BTreeMap_entry(nodes, root, last'.key)
        IN  /\ (DOMAIN nodes) \subseteq (DOMAIN nodes')
            /\ IF last'.op \in {"insert", "or_insert"} /\ ~e.occupied
               THEN /\ Cardinality(new) = SplitsFrom(nodes, e.handle.node)
                                           + (IF RootSplits(last'.key) THEN 1 ELSE 0)
                    /\ RootSplits(last'.key) <=> root'.node # root.node
                    /\ \A n \in new :
                          \/ n = root'.node /\ IsInternal(nodes', n)
                                /\ nodes'[n].edges[0] = root.node
                          \/ RightSiblingOf(nodes, nodes', n)
               ELSE new = {}]_vars

\* an insert has just split a full leaf and the full root above it and put
\* a new internal root on top: three nodes were allocated
C32_Witness ==
    /\ last.op = "insert"
    /\ last.live = 3
    /\ root.height = 2
    /\ nodes[root.node].len = 1
    /\ RightSiblingOf(nodes, nodes, nodes[root.node].edges[1])

\* first_leaf_edge from `node` reads only nodes that the heap h still holds
RECURSIVE LiveDescent(_, _)
LiveDescent(h, node) ==
    /\ node.node \in DOMAIN h
    /\ node.height > 0 => LiveDescent(h, descend(h, Handle_new(node, 0)))

\* IntoIter::next called until it returns None, from the edge handle cur
\* on: `freed` lists what each deallocate_and_ascend released, in order, and
\* `stale` tells that a released node was read
RECURSIVE IntoIter_released(_, _, _)
IntoIter_released(h, cur, freed) ==
    IF cur.node.node \notin DOMAIN h THEN [freed |-> freed, stale |-> TRUE]
    ELSE IF cur.idx < NodeRef_len(h, cur.node)
    THEN IF cur.node.height = 0
         THEN IntoIter_released(h, Handle_new(cur.node, cur.idx + 1), freed)
         ELSE IF LiveDescent(h, descend(h, Handle_new(cur.node, cur.idx + 1)))
              THEN IntoIter_released(h,
                       first_leaf_edge(h, descend(h, Handle_new(cur.node, cur.idx + 1))),
                       freed)
              ELSE [freed |-> freed, stale |-> TRUE]
    ELSE LET d == deallocate_and_ascend(h, cur.node)
             f == Append(freed, (DOMAIN h) \ (DOMAIN d.h))
         IN  IF d.ret.some THEN IntoIter_released(d.h, d.ret.val, f)
             ELSE [freed |-> f, stale |-> FALSE]

\* what dropping the map of this state releases
DropReleases == IntoIter_released(nodes, BTreeMap_into_iter(nodes, root).val, <<>>)

\* C33: clearing the map or iterating it by value to the end (which is what
\* dropping it does) deallocates every node exactly once, an internal node
\* only after all its children, and reads no node after its deallocation.
C33_TeardownOrder ==
    [][last'.op \in {"clear", "into_iter"} =>
        LET r == DropReleases
        IN  /\ ~r.stale
            /\ \A i \in DOMAIN r.freed : Cardinality(r.freed[i]) = 1
            /\ \A i, j \in DOMAIN r.freed : i # j => r.freed[i] \cap r.freed[j] = {}
            /\ UNION {r.freed[i] : i \in DOMAIN r.freed} = DOMAIN nodes
            /\ \A i \in DOMAIN r.freed : \A n \in r.freed[i] :
                  IsInternal(nodes, n) =>
                    \A e \in 0..nodes[n].len :
                        \E j \in 1..(i - 1) : nodes[n].edges[e] \in r.freed[j]
            /\ DOMAIN BTreeMap_drop(nodes, root) = {}
            /\ \A n \in DOMAIN nodes : n \notin DOMAIN nodes' \/ nodes'[n] = LeafNode_new]_vars

\* a map of three levels has just been cleared: only the new root leaf is
\* allocated
C33_Witness ==
    /\ last.op = "clear"
    /\ last.live <= 0 - (2 * T + 2)
    /\ Cardinality(DOMAIN nodes) = 1
    /\ nodes[root.node].len = 0

\* C34: once an IntoIter has gone out of scope, exhausted or not, no node of
\* the tree it owned is allocated any more.
C34_IntoIterDropFrees == last.op = "into_iter_drop" => DOMAIN nodes = {}

\* the slots S of one array of a node that an operation `by` reads or
\* writes while the node's len field is `count`; kind is "kv" for the key
\* and value arrays and "edge" for the array of children
Acc(by, mode, kind, S, count) ==
    {[by |-> by, mode |-> mode, kind |-> kind, idx |-> i, count |-> count] : i \in S}

\* insert_unchecked at edge idx of a node of len keys: slice_insert moves
\* the slots idx..len-1 of keys and vals up by one and writes slot idx; in
\* an internal node, with len already incremented, it then moves the edges
\* idx+1..len up, writes edge idx+1 and correct_parent_link descends
\* through the edges idx+1..len+1
insert_unchecked_accesses(len, idx, internal) ==
    Acc("insert", "read", "kv", idx..(len - 1), len)
    \cup Acc("insert", "write", "kv", idx..len, len)
    \cup (IF internal
          THEN Acc("insert", "read", "edge", (idx + 1)..len, len + 1)
               \cup Acc("insert", "write", "edge", (idx + 1)..(len + 1), len + 1)
               \cup Acc("insert", "read", "edge", (idx + 1)..(len + 1), len + 1)
          ELSE {})

\* split at the KV handle idx of a node of len keys: slot idx is read out,
\* the slots after it (and, in an internal node, the edges idx+1..len) are
\* copied to the start of the arrays of a new node, whose len is then set
\* and whose edges correct_parent_link descends through
split_accesses(len, idx, internal) ==
    Acc("split", "read", "kv", idx..(len - 1), len)
    \cup Acc("split", "write", "kv", 0..(len - idx - 2), 0)
    \cup (IF internal
          THEN Acc("split", "read", "edge", (idx + 1)..len, len)
               \cup Acc("split", "write", "edge", 0..(len - idx - 1), 0)
               \cup Acc("split", "read", "edge", 0..(len - idx - 1), len - idx - 1)
          ELSE {})

\* push onto a node of len keys: key and value go to slot len, the edge to
\* slot len + 1, correct_parent_link descends through that edge and only
\* then is len incremented
push_accesses(len) ==
    Acc("push", "write", "kv", {len}, len)
    \cup Acc("push", "write", "edge", {len + 1}, len)
    \cup Acc("push", "read", "edge", {len + 1}, len)

\* VacantEntry::insert from the edge handle on: insert or split-and-insert
\* at this node, then the same at the parent's edge for as long as nodes
\* split, and Root::enlarge with push when the root has split
RECURSIVE VacantEntry_insert_accesses(_, _)
VacantEntry_insert_accesses(h, handle) ==
    LET len      == NodeRef_len(h, handle.node)
        internal == handle.node.height > 0
    IN  IF len < capacity THEN insert_unchecked_accesses(len, handle.idx, internal)
        ELSE split_accesses(len, T, internal)
             \cup (IF handle.idx <= T
                   THEN insert_unchecked_accesses(T, handle.idx, internal)
                   ELSE insert_unchecked_accesses(len - T - 1, handle.idx - T - 1,
                                                  internal))
             \cup (IF ascend(h, handle.node).ok
                   THEN VacantEntry_insert_accesses(h, ascend(h, handle.node).handle)
                   ELSE Acc("enlarge", "write", "edge", {0}, InternalNode_new.len)
                        \cup Acc("enlarge", "read", "edge", {0}, InternalNode_new.len)
                        \cup push_accesses(InternalNode_new.len))

\* search_tree from `node`: search_linear compares the keys of the slice of
\* length len up to the first one that is not smaller; Found reads that
\* slot (into_kv), GoDown descends through the edge of the same index
RECURSIVE search_tree_accesses(_, _, _)
search_tree_accesses(h, node, key) ==
    LET len == NodeRef_len(h, node)
        r   == search_node(h, node, key)
        i   == r.handle.idx
    IN  Acc("search", "read", "kv", 0..(IF i < len THEN i ELSE len - 1), len)
        \cup (IF r.found THEN Acc("into_kv", "read", "kv", {i}, len)
              ELSE IF node.height = 0 THEN {}
              ELSE Acc("descend", "read", "edge", {i}, len)
                   \cup search_tree_accesses(h, descend(h, r.handle), key))

\* Iter::next from the edge handle on: up through ascend until right_kv
\* yields a pair, which is read, then (down) through the edge right of it
\* and through the first edge of every internal node below
RECURSIVE Iter_next_accesses(_, _, _)
Iter_next_accesses(h, handle, down) ==
    LET len == NodeRef_len(h, handle.node)
    IN  IF down
        THEN Acc("descend", "read", "edge", {handle.idx}, len)
             \cup (IF handle.node.height > 1
                   THEN Iter_next_accesses(h, Handle_new(descend(h, handle), 0), TRUE)
                   ELSE {})
        ELSE IF handle.idx < len
             THEN Acc("into_kv", "read", "kv", {handle.idx}, len)
                  \cup (IF handle.node.height > 0
                        THEN Iter_next_accesses(h, Handle_new(handle.node, handle.idx + 1),
                                                TRUE)
                        ELSE {})
             ELSE IF ascend(h, handle.node).ok
                  THEN Iter_next_accesses(h, ascend(h, handle.node).handle, FALSE)
                  ELSE {}

\* every slot access of the calls that can come next: a lookup of each
\* probe key, the insertion of each key the caller may store, and next() of
\* an Iter at each edge of each leaf
Accesses ==
    UNION {search_tree_accesses(nodes, Root_as_ref(root), q) : q \in DeepProbes}
    \cup UNION {VacantEntry_insert_accesses(nodes,
                    BTreeMap_entry(nodes, root, k).handle) : k \in DeepCallable}
    \cup UNION {Iter_next_accesses(nodes, Handle_new([node |-> n, height |-> 0], i), FALSE) :
                  n \in {m \in DOMAIN nodes : ~IsInternal(nodes, m)}, i \in 0..capacity}

\* C35 as stated: no operation reads a key or value slot at an index >= the
\* node's count or a child slot at an index > the count, and none writes a
\* key or value slot at an index >= 2T-1 or a child slot at an index >= 2T.
C35_SlotsWithinCount ==
    \A a \in Accesses :
        /\ a.mode = "read" /\ a.kind = "kv" => a.idx < a.count
        /\ a.mode = "read" /\ a.kind = "edge" => a.idx <= a.count
        /\ a.mode = "write" /\ a.kind = "kv" => a.idx < 2 * T - 1
        /\ a.mode = "write" /\ a.kind = "edge" => a.idx < 2 * T

\* C35, amended: as stated, except that push reads back the child slot at
\* index count + 1, which it has just written, before it increments the
\* count.
C35_SlotsWithinCountOrPushed ==
    \A a \in Accesses :
        /\ a.mode = "read" /\ a.kind = "kv" => a.idx < a.count
        /\ a.mode = "read" /\ a.kind = "edge" =>
              \/ a.idx <= a.count
              \/ a.by = "push" /\ a.idx = a.count + 1
        /\ a.mode = "write" /\ a.kind = "kv" => a.idx < 2 * T - 1
        /\ a.mode = "write" /\ a.kind = "edge" => a.idx < 2 * T

\* in a tree of three levels the next insertion fills the last key slot
\* and the last child slot of an internal node, a lookup compares the key
\* in the last slot of a full node and a descent goes through a node's
\* last edge
C35_Witness ==
    /\ root.height = 2
    /\ \E a \in Accesses : a.by = "insert" /\ a.mode = "write" /\ a.kind = "edge"
                             /\ a.idx = 2 * T - 1
    /\ \E a \in Accesses : a.by = "insert" /\ a.mode = "write" /\ a.kind = "kv"
                             /\ a.idx = 2 * T - 2
    /\ \E a \in Accesses : a.by = "search" /\ a.idx = 2 * T - 2
    /\ \E a \in Accesses : a.by = "descend" /\ a.idx = a.count

\* C36: whenever VacantEntry::insert hands a promoted triple to
\* Handle<Internal, Edge>::insert or to push, the Root of the right sibling
\* has the height of the receiving node minus one (and designates a leaf
\* exactly when that is 0), and the node push is called on, the new root
\* that Root::enlarge returned, holds fewer keys than its capacity.
C36_AssertionsHold ==
    \A k \in DeepCallable :
        /\ FullChild(k) =>
              /\ LeafTry(k).right.height = ParentEdge(k).node.height - 1
              /\ ~IsInternal(LeafTry(k).h, LeafTry(k).right.node)
        /\ FullInner(k) =>
              /\ ParentTry(k).right.height = GrandEdge(k).node.height - 1
              /\ IsInternal(ParentTry(k).h, ParentTry(k).right.node)
        /\ RootSplits(k) =>
              LET e == Root_enlarge(RootTry(k).h, root)
              IN  /\ RootTry(k).right.height = e.ret.height - 1
                  /\ IsInternal(RootTry(k).h, RootTry(k).right.node)
                        <=> RootTry(k).right.height > 0
                  /\ NodeRef_len(e.h, e.ret) < capacity

\* the next insertion splits a leaf and its parent, an internal node that
\* is not the root, and inserts the parent's right half, of height 1, into
\* the root of height 2
C36_Witness ==
    /\ root.height = 2
    /\ \E k \in DeepCallable :
          /\ FullInner(k)
          /\ GrandEdge(k).node = Root_as_ref(root)
          /\ ParentTry(k).right.height = 1
          /\ GrandTry(k).fit

==============================================================================
